---- MODULE Spec2Model ----
(***************************************************************************)
(* A model of the data-access layer of the budget tool                     *)
(* (src/budget_database.py, class EnhancedBudgetDatabase).                 *)
(*                                                                         *)
(* Every table is a variable holding the rows of the table as a function   *)
(* from the integer primary key to a record of the columns the operations  *)
(* read or write.  The created_at / updated_at / last_updated columns hold *)
(* wall-clock values no modelled operation reads and are left out.         *)
(* Python str values that the code takes apart (dates, months) are         *)
(* sequences of one-character strings; REAL amounts are integers.          *)
(***************************************************************************)
EXTENDS Integers, Sequences, FiniteSets, TLC

VARIABLES income, expenses, budget_plans, investment_accounts, real_assets,
          savings_goals, sqlite_sequence, last, history

\* `last` is the outcome of the latest call and `history` the list of the
\* calls a specification keeps track of: neither is read by any operation.
vars == <<income, expenses, budget_plans, investment_accounts, real_assets,
          savings_goals, sqlite_sequence, last, history>>

(***************************************************************************)
(* Python string primitives used by the code.                              *)
(***************************************************************************)
Digits == <<"0", "1", "2", "3", "4", "5", "6", "7", "8", "9">>

IsDigit(c) == \E i \in 1..10 : Digits[i] = c

DigitVal(c) == (CHOOSE i \in 1..10 : Digits[i] = c) - 1

\* str.split('-'): the list of the substrings between the separators.
Split(s) ==
  LET RECURSIVE F(_, _, _)
      F(i, cur, acc) ==
        IF i > Len(s) THEN Append(acc, cur)
        ELSE IF s[i] = "-" THEN F(i + 1, <<>>, Append(acc, cur))
        ELSE F(i + 1, Append(cur, s[i]), acc)
  IN F(1, <<>>, <<>>)

\* int(s) on a str of decimal digits; anything else raises ValueError.
\* (The modelled inputs hold digits, letters, '-' and '/', never signs,
\* blanks or underscores.)
PyInt(s) ==
  LET RECURSIVE V(_, _)
      V(i, acc) == IF i > Len(s) THEN acc ELSE V(i + 1, acc * 10 + DigitVal(s[i]))
  IN IF Len(s) > 0 /\ \A i \in 1..Len(s) : IsDigit(s[i])
     THEN [ok |-> TRUE, val |-> V(1, 0)]
     ELSE [ok |-> FALSE, val |-> 0]

\* str(n) for an integer n.
PyStr(n) ==
  LET RECURSIVE D(_)
      D(k) == IF k < 10 THEN <<Digits[k + 1]>>
              ELSE Append(D(k \div 10), Digits[(k % 10) + 1])
  IN IF n < 0 THEN <<"-">> \o D(-n) ELSE D(n)

\* s.zfill(2): left-pad with zeros to width 2, after a leading sign.
ZFill2(s) ==
  IF Len(s) >= 2 THEN s
  ELSE IF Len(s) = 1 /\ s[1] = "-" THEN <<"-", "0">>
  ELSE IF Len(s) = 1 THEN <<"0">> \o s
  ELSE <<"0", "0">>

(***************************************************************************)
(* The value a call leaves behind: its name, its arguments and either the  *)
(* value it returned or the exception it raised.                           *)
(***************************************************************************)
None == "None"

Returned(op, args, ret) == [op |-> op, args |-> args, ret |-> ret, raised |-> None]

Raised(op, args, exc) == [op |-> op, args |-> args, ret |-> None, raised |-> exc]

\* dict.get(key, default) on a row read from a CSV file.
Get(row, key, default) == IF key \in DOMAIN row THEN row[key] ELSE default

\* The row set of a table with one row removed / one row written.
Without(table, id) == [i \in DOMAIN table \ {id} |-> table[i]]

With(table, id, row) == [i \in DOMAIN table \cup {id} |-> IF i = id THEN row ELSE table[i]]

\* SUM(column) over the rows of `table` whose ids are in `ids`.
SumOver(table, ids, col) ==
  LET RECURSIVE S(_)
      S(rest) == IF rest = {} THEN 0
                 ELSE LET i == CHOOSE x \in rest : TRUE
                      IN table[i][col] + S(rest \ {i})
  IN S(ids)

(***************************************************************************)
(* _initialize_default_data: the rows seeded into a new database.          *)
(***************************************************************************)
default_investments ==
  << <<"Jeff's Roth Accounts", "Retirement", "Non-Liquid", "Jeff", "Vanguard">>,
     <<"Jeff's 401k Accounts", "Retirement", "Non-Liquid", "Jeff", "Employer">>,
     <<"Vanessa's Roth 401k Accounts", "Retirement", "Non-Liquid", "Vanessa", "Employer">>,
     <<"Vanessa's Roth Accounts", "Retirement", "Non-Liquid", "Vanessa", "Vanguard">>,
     <<"Emergency Fund", "Savings", "Liquid", "Joint", "Bank of America">>,
     <<"House Fund", "Savings", "Semi-Liquid", "Joint", "Bank of America">>,
     <<"Vacation Fund", "Savings", "Liquid", "Joint", "Bank of America">>,
     <<"Baby Fund", "Savings", "Liquid", "Joint", "Bank of America">>,
     <<"HSA", "Health Savings", "Semi-Liquid", "Jeff", "Health Equity">>,
     <<"Betterment", "Investment", "Semi-Liquid", "Joint", "Betterment">>,
     <<"Checking", "Cash", "Liquid", "Joint", "Bank of America">> >>

default_assets ==
  << <<"Primary Residence", "Real Estate", 548584>>,
     <<"Lima Apartment", "Real Estate", 52000>>,
     <<"Tiguan", "Vehicle", 38379>> >>

default_goals ==
  << <<"Vacation", 3000, 1, "Travel fund">>,
     <<"Emergency Fund", 24000, 1, "6 months expenses">>,
     <<"Baby Fund", 8000, 2, "Child expenses">>,
     <<"House Down Payment", 80000, 3, "Future home">> >>

InvestmentRow(d) ==
  [account_name |-> d[1], account_type |-> d[2], liquidity |-> d[3],
   person |-> d[4], institution |-> d[5],
   current_balance |-> 0, previous_balance |-> 0]

AssetRow(d) == [asset_name |-> d[1], asset_type |-> d[2], current_value |-> d[3]]

\* current_amount, monthly_contribution and is_active take the column defaults.
GoalRow(d) ==
  [name |-> d[1], target_amount |-> d[2], current_amount |-> 0,
   monthly_contribution |-> 0, priority |-> d[3], is_active |-> 1, notes |-> d[4]]

\* __init__: create_tables and _initialize_default_data on a new file.
Init ==
  /\ income = <<>>
  /\ expenses = <<>>
  /\ budget_plans = <<>>
  /\ investment_accounts = [i \in 1..Len(default_investments) |-> InvestmentRow(default_investments[i])]
  /\ real_assets = [i \in 1..Len(default_assets) |-> AssetRow(default_assets[i])]
  /\ savings_goals = [i \in 1..Len(default_goals) |-> GoalRow(default_goals[i])]
  /\ sqlite_sequence = [income |-> 0, expenses |-> 0, budget_plans |-> 0,
                        investment_accounts |-> Len(default_investments),
                        real_assets |-> Len(default_assets),
                        savings_goals |-> Len(default_goals)]
  /\ last = Returned("__init__", <<>>, None)
  /\ history = <<>>

(***************************************************************************)
(* Income and expense methods.                                             *)
(***************************************************************************)
\* The str has the form YYYY-MM-DD: ten characters, digits but for the
\* two separators.
IsIsoDate(date) ==
  /\ Len(date) = 10
  /\ \A i \in 1..10 : IF i \in {5, 8} THEN date[i] = "-" ELSE IsDigit(date[i])

\* DeriveMonthYear raising for every str that is not of the form YYYY-MM-DD.
DeriveMonthYear_Strict(date) ==
  LET parts == Split(date)
  IN IF ~IsIsoDate(date) THEN [raised |-> "ValueError", month |-> <<>>, year |-> 0]
     ELSE [raised |-> None, month |-> parts[2], year |-> PyInt(parts[1]).val]

\* month = date.split('-')[1]; year = int(date.split('-')[0]):
\* the derived pair, or the exception the derivation raises.
DeriveMonthYear(date) ==
  LET parts == Split(date)
  IN IF Len(parts) < 2 THEN [raised |-> "IndexError", month |-> <<>>, year |-> 0]
     ELSE IF ~PyInt(parts[1]).ok THEN [raised |-> "ValueError", month |-> <<>>, year |-> 0]
     ELSE [raised |-> None, month |-> parts[2], year |-> PyInt(parts[1]).val]

IncomeRow(date, source, amount, person, account, description, is_transfer, from_account, my) ==
  [date |-> date, source |-> source, amount |-> amount, person |-> person,
   account |-> account, description |-> description, is_transfer |-> is_transfer,
   from_account |-> from_account, month |-> my.month, year |-> my.year]

ExpenseRow(date, category, subcategory, amount, person, description, account, cleared, my) ==
  [date |-> date, category |-> category, subcategory |-> subcategory,
   amount |-> amount, person |-> person, description |-> description,
   account |-> account, cleared |-> cleared, month |-> my.month, year |-> my.year]

\* INSERT into an AUTOINCREMENT table: the new id is one past the largest id
\* the table has ever held.
NextId(seq, table) == seq[table] + 1

\* add_income on a table whose id is a plain INTEGER PRIMARY KEY: the new id
\* is one past the largest id now in the table.
add_income_ReusesRowid(tbl, seq, date, source, amount, person, account, description, is_transfer, from_account) ==
  LET my == DeriveMonthYear(date)
      id == IF DOMAIN tbl = {} THEN 1
            ELSE (CHOOSE m \in DOMAIN tbl : \A j \in DOMAIN tbl : j <= m) + 1
  IN IF my.raised # None
     THEN [table |-> tbl, seq |-> seq, raised |-> my.raised, ret |-> None]
     ELSE [table |-> With(tbl, id, IncomeRow(date, source, amount, person, account,
                                             description, is_transfer, from_account, my)),
           seq |-> [seq EXCEPT !["income"] = id],
           raised |-> None, ret |-> id]

\* add_income refusing a negative amount.
add_income_RejectsNegative(tbl, seq, date, source, amount, person, account, description, is_transfer, from_account) ==
  LET my == DeriveMonthYear(date)
      id == seq["income"] + 1
  IN IF my.raised # None
     THEN [table |-> tbl, seq |-> seq, raised |-> my.raised, ret |-> None]
     ELSE IF amount < 0
     THEN [table |-> tbl, seq |-> seq, raised |-> "ValueError", ret |-> None]
     ELSE [table |-> With(tbl, id, IncomeRow(date, source, amount, person, account,
                                             description, is_transfer, from_account, my)),
           seq |-> [seq EXCEPT !["income"] = id],
           raised |-> None, ret |-> id]

\* add_income on the table `tbl` with the counters `seq`: the table and the
\* counters it leaves, and the id it returns or the exception it raises.
add_income(tbl, seq, date, source, amount, person, account, description, is_transfer, from_account) ==
  LET my == DeriveMonthYear(date)
      id == NextId(seq, "income")
  IN IF my.raised # None
     THEN [table |-> tbl, seq |-> seq, raised |-> my.raised, ret |-> None]
     ELSE [table |-> With(tbl, id, IncomeRow(date, source, amount, person, account,
                                             description, is_transfer, from_account, my)),
           seq |-> [seq EXCEPT !["income"] = id],
           raised |-> None, ret |-> id]

\* add_expense on the table `tbl` with the counters `seq`, likewise.
add_expense(tbl, seq, date, category, subcategory, amount, person, description, account, cleared) ==
  LET my == DeriveMonthYear(date)
      id == NextId(seq, "expenses")
  IN IF my.raised # None
     THEN [table |-> tbl, seq |-> seq, raised |-> my.raised, ret |-> None]
     ELSE [table |-> With(tbl, id, ExpenseRow(date, category, subcategory, amount,
                                              person, description, account, cleared, my)),
           seq |-> [seq EXCEPT !["expenses"] = id],
           raised |-> None, ret |-> id]

AddIncome(date, source, amount, person, account, description, is_transfer, from_account) ==
  LET r == add_income(income, sqlite_sequence, date, source, amount, person, account, description, is_transfer, from_account)
      args == <<date, source, amount, person, account, description, is_transfer, from_account>>
  IN /\ income' = r.table
     /\ sqlite_sequence' = r.seq
     /\ last' = IF r.raised # None THEN Raised("add_income", args, r.raised)
                ELSE Returned("add_income", args, r.ret)
     /\ UNCHANGED <<expenses, budget_plans, investment_accounts, real_assets, savings_goals, history>>

\* data is the dict of the eight fields; UPDATE ... WHERE id = ? touches no
\* row when the id is absent.
UpdateIncome(income_id, data) ==
  LET my == DeriveMonthYear(data.date)
  IN /\ IF my.raised # None
        THEN /\ income' = income
             /\ last' = Raised("update_income", <<income_id, data>>, my.raised)
        ELSE /\ income' = IF income_id \in DOMAIN income
                          THEN With(income, income_id,
                                    IncomeRow(data.date, data.source, data.amount, data.person,
                                              data.account, data.description, data.is_transfer,
                                              data.from_account, my))
                          ELSE income
             /\ last' = Returned("update_income", <<income_id, data>>, None)
     /\ UNCHANGED <<expenses, budget_plans, investment_accounts, real_assets,
                    savings_goals, sqlite_sequence, history>>

DeleteIncome(income_id) ==
  /\ income' = Without(income, income_id)
  /\ last' = Returned("delete_income", <<income_id>>, None)
  /\ UNCHANGED <<expenses, budget_plans, investment_accounts, real_assets,
                 savings_goals, sqlite_sequence, history>>

AddExpense(date, category, subcategory, amount, person, description, account, cleared) ==
  LET r == add_expense(expenses, sqlite_sequence, date, category, subcategory, amount, person, description, account, cleared)
      args == <<date, category, subcategory, amount, person, description, account, cleared>>
  IN /\ expenses' = r.table
     /\ sqlite_sequence' = r.seq
     /\ last' = IF r.raised # None THEN Raised("add_expense", args, r.raised)
                ELSE Returned("add_expense", args, r.ret)
     /\ UNCHANGED <<income, budget_plans, investment_accounts, real_assets, savings_goals, history>>

\* UpdateExpense with the month and year columns left as they were.
UpdateExpense_StaleMonthYear(expense_id, data) ==
  /\ expenses' = IF expense_id \in DOMAIN expenses
                 THEN [expenses EXCEPT ![expense_id].date = data.date]
                 ELSE expenses
  /\ last' = Returned("update_expense", <<expense_id, data>>, None)
  /\ UNCHANGED <<income, budget_plans, investment_accounts, real_assets,
                 savings_goals, sqlite_sequence, history>>

UpdateExpense(expense_id, data) ==
  LET my == DeriveMonthYear(data.date)
  IN /\ IF my.raised # None
        THEN /\ expenses' = expenses
             /\ last' = Raised("update_expense", <<expense_id, data>>, my.raised)
        ELSE /\ expenses' = IF expense_id \in DOMAIN expenses
                            THEN With(expenses, expense_id,
                                      ExpenseRow(data.date, data.category, data.subcategory,
                                                 data.amount, data.person, data.description,
                                                 data.account, data.cleared, my))
                            ELSE expenses
             /\ last' = Returned("update_expense", <<expense_id, data>>, None)
     /\ UNCHANGED <<income, budget_plans, investment_accounts, real_assets,
                    savings_goals, sqlite_sequence, history>>

\* delete_expense removing the income row of the same id as well.
DeleteExpense_AlsoIncome(expense_id) ==
  /\ expenses' = Without(expenses, expense_id)
  /\ income' = Without(income, expense_id)
  /\ last' = Returned("delete_expense", <<expense_id>>, None)
  /\ UNCHANGED <<budget_plans, investment_accounts, real_assets,
                 savings_goals, sqlite_sequence, history>>

DeleteExpense(expense_id) ==
  /\ expenses' = Without(expenses, expense_id)
  /\ last' = Returned("delete_expense", <<expense_id>>, None)
  /\ UNCHANGED <<income, budget_plans, investment_accounts, real_assets,
                 savings_goals, sqlite_sequence, history>>

(***************************************************************************)
(* import_csv_data.  A file is the sequence of the dicts csv.DictReader    *)
(* yields, every dict with the columns of the file's header (each data     *)
(* line has as many cells as the header).  Cells are str: Date and Amount  *)
(* as character sequences, the others as atoms.                            *)
(***************************************************************************)
\* float(s) on an optionally signed str of decimal digits, or on the int
\* default 0; any other str raises ValueError.
PyFloat(s) ==
  IF s = <<>> THEN [ok |-> FALSE, val |-> 0]
  ELSE IF s[1] = "-" THEN LET n == PyInt(Tail(s)) IN [ok |-> n.ok, val |-> 0 - n.val]
  ELSE PyInt(s)

\* s.lower() == 'true' on the Cleared / IsTransfer cells.
LowerIsTrue(s) == s \in {"true", "True", "TRUE"}

\* ImportRow with the counter advanced for a failed row as well.
ImportRow_CountsFailures(st, row, data_type, today) ==
  LET amount == PyFloat(Get(row, "Amount", <<"0">>))
      r == IF data_type = "expenses"
           THEN add_expense(st.table, st.seq,
                            Get(row, "Date", today), Get(row, "Category", "Other"),
                            Get(row, "Sub Category", "Other"), amount.val,
                            Get(row, "Person", "Joint"), Get(row, "Description", ""),
                            Get(row, "Account", "Checking"),
                            LowerIsTrue(Get(row, "Cleared", "True")))
           ELSE add_income(st.table, st.seq,
                           Get(row, "Date", today), Get(row, "Source", "Other"),
                           amount.val, Get(row, "Person", "Joint"),
                           Get(row, "Account", "Checking"), Get(row, "Description", ""),
                           LowerIsTrue(Get(row, "IsTransfer", "False")),
                           Get(row, "FromAccount", ""))
      exc == IF ~amount.ok THEN "ValueError" ELSE r.raised
  IN IF exc # None
     THEN [st EXCEPT !.imported = @ + 1,
                     !.errors = Append(@, [row |-> st.imported + 1, msg |-> exc])]
     ELSE [table |-> r.table, seq |-> r.seq, imported |-> st.imported + 1,
           errors |-> st.errors]

\* One iteration of the loop body (lines 651-678): the state after the row.
ImportRow(st, row, data_type, today) ==
  LET amount == PyFloat(Get(row, "Amount", <<"0">>))
      r == IF data_type = "expenses"
           THEN add_expense(st.table, st.seq,
                            Get(row, "Date", today), Get(row, "Category", "Other"),
                            Get(row, "Sub Category", "Other"), amount.val,
                            Get(row, "Person", "Joint"), Get(row, "Description", ""),
                            Get(row, "Account", "Checking"),
                            LowerIsTrue(Get(row, "Cleared", "True")))
           ELSE add_income(st.table, st.seq,
                           Get(row, "Date", today), Get(row, "Source", "Other"),
                           amount.val, Get(row, "Person", "Joint"),
                           Get(row, "Account", "Checking"), Get(row, "Description", ""),
                           LowerIsTrue(Get(row, "IsTransfer", "False")),
                           Get(row, "FromAccount", ""))
      exc == IF ~amount.ok THEN "ValueError" ELSE r.raised
  IN IF exc # None
     THEN [st EXCEPT !.errors = Append(@, [row |-> st.imported + 1, msg |-> exc])]
     ELSE [table |-> r.table, seq |-> r.seq, imported |-> st.imported + 1,
           errors |-> st.errors]

\* The for loop over the reader, from the state `st`.
ImportRows(st, file, data_type, today) ==
  LET RECURSIVE L(_, _)
      L(cur, i) == IF i > Len(file) THEN cur
                   ELSE L(ImportRow(cur, file[i], data_type, today), i + 1)
  IN L(st, 1)

\* import_csv_data(filepath, data_type) on a file that opens; `today` is what
\* datetime.now() formats to during the call.
ImportCsvData(file, data_type, today) ==
  LET tbl == IF data_type = "expenses" THEN expenses ELSE income
      st == ImportRows([table |-> tbl, seq |-> sqlite_sequence, imported |-> 0,
                        errors |-> <<>>], file, data_type, today)
  IN /\ data_type \in {"expenses", "income"}
     /\ expenses' = IF data_type = "expenses" THEN st.table ELSE expenses
     /\ income' = IF data_type = "income" THEN st.table ELSE income
     /\ sqlite_sequence' = st.seq
     /\ last' = Returned("import_csv_data", <<file, data_type>>,
                         [success |-> TRUE, imported |-> st.imported, errors |-> st.errors])
     /\ UNCHANGED <<budget_plans, investment_accounts, real_assets, savings_goals, history>>

(***************************************************************************)
(* The ledger: income and expense rows written with valid dates.           *)
(***************************************************************************)
\* The number of income and expense rows inserted, both tables together, in
\* the explored runs.
MaxLedgerRows == 2

Inserted == sqlite_sequence["income"] + sqlite_sequence["expenses"]

\* The longest CSV file imported in the explored runs.
MaxCsvRows == 2

ValidDates ==
  { <<"2", "0", "2", "4", "-", "0", "3", "-", "1", "5">>,
    <<"2", "0", "2", "5", "-", "1", "2", "-", "0", "1">> }

Today == <<"2", "0", "2", "5", "-", "0", "1", "-", "3", "1">>

IncomeData(d) ==
  [date |-> d, source |-> "Salary", amount |-> 100, person |-> "Jeff",
   account |-> "Checking", description |-> "", is_transfer |-> FALSE, from_account |-> ""]

ExpenseData(d) ==
  [date |-> d, category |-> "Food", subcategory |-> "Food (Groceries)", amount |-> 45,
   person |-> "Jeff", description |-> "", account |-> "Checking", cleared |-> TRUE]

\* Data lines of a CSV file with a Date and an Amount column; the other
\* columns are absent and take their defaults.
CsvRow(d, a) == [c \in {"Date", "Amount"} |-> IF c = "Date" THEN d ELSE a]

LedgerCsvRows ==
  { CsvRow(d, <<"4", "5">>) : d \in ValidDates } \cup { CsvRow(Today, <<"a", "b", "c">>) }

LedgerCsvFiles == UNION { [1..n -> LedgerCsvRows] : n \in 1..MaxCsvRows }

NextLedger ==
  \/ \E d \in ValidDates :
       /\ Inserted < MaxLedgerRows
       /\ AddIncome(d, "Salary", 100, "Jeff", "Checking", "", FALSE, "")
  \/ \E id \in 1..(MaxLedgerRows + 1), d \in ValidDates : UpdateIncome(id, IncomeData(d))
  \/ \E id \in 1..(MaxLedgerRows + 1) : DeleteIncome(id)
  \/ \E d \in ValidDates :
       /\ Inserted < MaxLedgerRows
       /\ AddExpense(d, "Food", "Food (Groceries)", 45, "Jeff", "", "Checking", TRUE)
  \/ \E id \in 1..(MaxLedgerRows + 1), d \in ValidDates : UpdateExpense(id, ExpenseData(d))
  \/ \E id \in 1..(MaxLedgerRows + 1) : DeleteExpense(id)
  \/ \E file \in LedgerCsvFiles, t \in {"expenses", "income"} :
       /\ Inserted + Len(file) <= MaxLedgerRows
       /\ ImportCsvData(file, t, Today)

SpecLedger == Init /\ [][NextLedger]_vars

\* The month and year a YYYY-MM-DD date names: characters 6-7, and the
\* number written by characters 1-4.
MonthOf(date) == SubSeq(date, 6, 7)

YearOf(date) ==
  1000 * DigitVal(date[1]) + 100 * DigitVal(date[2]) + 10 * DigitVal(date[3]) + DigitVal(date[4])

\* C1: every stored income and expense row has month equal to the
\* two-character month substring of its own date and year equal to the
\* integer year prefix of its own date, after any sequence of adds, updates,
\* deletes and CSV imports with valid YYYY-MM-DD dates.
C1_MonthYearInSync ==
  /\ \A id \in DOMAIN income :
       /\ income[id].month = MonthOf(income[id].date)
       /\ income[id].year = YearOf(income[id].date)
  /\ \A id \in DOMAIN expenses :
       /\ expenses[id].month = MonthOf(expenses[id].date)
       /\ expenses[id].year = YearOf(expenses[id].date)

\* An update has just rewritten an existing expense row while an income row
\* of another month and year is stored.
C1_Witness ==
  /\ last.op = "update_expense"
  /\ last.args[1] \in DOMAIN expenses
  /\ expenses[last.args[1]].date = last.args[2].date
  /\ \E i \in DOMAIN income :
       /\ income[i].month # expenses[last.args[1]].month
       /\ income[i].year # expenses[last.args[1]].year

(***************************************************************************)
(* Budget plans and the budget-vs-actual report.                           *)
(***************************************************************************)
PlanRow(month, year, category, subcategory, amount) ==
  [month |-> month, year |-> year, category |-> category,
   subcategory |-> subcategory, planned_amount |-> amount]

\* InsertOrReplacePlan as a plain INSERT into a table with no unique key.
InsertOrReplacePlan_NoReplace(st, month, year, category, subcategory, amount) ==
  LET id == NextId(st.seq, "budget_plans")
  IN [table |-> With(st.table, id, PlanRow(month, year, category, subcategory, amount)),
      seq |-> [st.seq EXCEPT !["budget_plans"] = id]]

\* INSERT OR REPLACE INTO budget_plans under UNIQUE(month, year, category,
\* subcategory): the rows in conflict are deleted, then the row is inserted
\* under a new id.
InsertOrReplacePlan(st, month, year, category, subcategory, amount) ==
  LET conflicts == { i \in DOMAIN st.table :
                       /\ st.table[i].month = month
                       /\ st.table[i].year = year
                       /\ st.table[i].category = category
                       /\ st.table[i].subcategory = subcategory }
      kept == [i \in DOMAIN st.table \ conflicts |-> st.table[i]]
      id == NextId(st.seq, "budget_plans")
  IN [table |-> With(kept, id, PlanRow(month, year, category, subcategory, amount)),
      seq |-> [st.seq EXCEPT !["budget_plans"] = id]]

UpdateBudgetPlan(month, year, category, subcategory, amount) ==
  LET st == InsertOrReplacePlan([table |-> budget_plans, seq |-> sqlite_sequence],
                                month, year, category, subcategory, amount)
  IN /\ budget_plans' = st.table
     /\ sqlite_sequence' = st.seq
     /\ last' = Returned("update_budget_plan",
                         <<month, year, category, subcategory, amount>>, None)
     /\ UNCHANGED <<income, expenses, investment_accounts, real_assets, savings_goals, history>>

\* The ids of `ids` in ascending order (the order rows are fetched in).
Ascending(ids) ==
  LET RECURSIVE A(_)
      A(rest) == IF rest = {} THEN <<>>
                 ELSE LET m == CHOOSE x \in rest : \A y \in rest : x <= y
                      IN <<m>> \o A(rest \ {m})
  IN A(ids)

\* comparison[cat][subcat] = entry, creating comparison[cat] when absent.
SetEntry(comparison, cat, subcat, entry) ==
  With(comparison, cat,
       With(IF cat \in DOMAIN comparison THEN comparison[cat] ELSE <<>>, subcat, entry))

\* A percentage is kept as the exact quotient num / den.
Percent0 == [num |-> 0, den |-> 1]

\* (actual / planned) * 100
PercentOf(actual, planned) == [num |-> actual * 100, den |-> planned]

\* Lines 440-452: one entry per fetched plan row.
PlannedPass(month, year) ==
  LET rows == Ascending({ i \in DOMAIN budget_plans :
                            budget_plans[i].month = month /\ budget_plans[i].year = year })
      RECURSIVE P(_, _)
      P(comparison, k) ==
        IF k > Len(rows) THEN comparison
        ELSE LET row == budget_plans[rows[k]]
             IN P(SetEntry(comparison, row.category, row.subcategory,
                           [planned |-> row.planned_amount, actual |-> 0,
                            variance |-> 0, percentage |-> Percent0]), k + 1)
  IN P(<<>>, 1)

\* MergeActual with the variance taken as actual - planned.
MergeActual_VarianceFlipped(entry, actual) ==
  [planned |-> entry.planned, actual |-> actual,
   variance |-> actual - entry.planned,
   percentage |-> IF entry.planned > 0 THEN PercentOf(actual, entry.planned)
                  ELSE entry.percentage]

\* Lines 477-481: the entry of a planned pair once its actual is known.
MergeActual(entry, actual) ==
  [planned |-> entry.planned, actual |-> actual,
   variance |-> entry.planned - actual,
   percentage |-> IF entry.planned > 0 THEN PercentOf(actual, entry.planned)
                  ELSE entry.percentage]

\* UnplannedEntry with the sign of the variance lost.
UnplannedEntry_PositiveVariance(actual) ==
  [planned |-> 0, actual |-> actual, variance |-> actual, percentage |-> Percent0]

\* Lines 470-475: the entry of a pair that has expenses and no plan.
UnplannedEntry(actual) ==
  [planned |-> 0, actual |-> actual, variance |-> 0 - actual, percentage |-> Percent0]

\* Lines 455-481: SELECT ... SUM(amount) ... GROUP BY category, subcategory
\* over the period's expenses, merged into the comparison.
ActualPass(comparison0, month, year) ==
  LET ids == { i \in DOMAIN expenses :
                 expenses[i].month = month /\ expenses[i].year = year }
      groups == { <<expenses[i].category, expenses[i].subcategory>> : i \in ids }
      RECURSIVE Q(_, _)
      Q(comparison, rest) ==
        IF rest = {} THEN comparison
        ELSE LET g == CHOOSE x \in rest : TRUE
                 cat == g[1]
                 subcat == g[2]
                 actual == SumOver(expenses,
                                   { i \in ids : /\ expenses[i].category = cat
                                                 /\ expenses[i].subcategory = subcat },
                                   "amount")
                 planned == cat \in DOMAIN comparison /\ subcat \in DOMAIN comparison[cat]
             IN Q(SetEntry(comparison, cat, subcat,
                           IF planned THEN MergeActual(comparison[cat][subcat], actual)
                           ELSE UnplannedEntry(actual)),
                  rest \ {g})
  IN Q(comparison0, groups)

get_budget_vs_actual(month, year) == ActualPass(PlannedPass(month, year), month, year)

GetBudgetVsActual(month, year) ==
  /\ last' = Returned("get_budget_vs_actual", <<month, year>>,
                      get_budget_vs_actual(month, year))
  /\ UNCHANGED <<income, expenses, budget_plans, investment_accounts, real_assets,
                 savings_goals, sqlite_sequence, history>>

(***************************************************************************)
(* Plans and expenses of two periods, and the report on each.              *)
(***************************************************************************)
\* The number of budget-plan writes and expense inserts, together, in the
\* explored runs.
MaxBvaWrites == 3

M03 == <<"0", "3">>

M12 == <<"1", "2">>

D_2024_03_15 == <<"2", "0", "2", "4", "-", "0", "3", "-", "1", "5">>

D_2025_12_01 == <<"2", "0", "2", "5", "-", "1", "2", "-", "0", "1">>

\* (month, year, category, subcategory, amount) written as plans.
BvaPlanInputs ==
  { <<M03, 2024, "Food", "Food (Groceries)", 500>>,
    <<M03, 2024, "Food", "Food (Groceries)", 0>>,
    <<M03, 2024, "Food", "Food (Take Out)", 500>>,
    <<M03, 2024, "Housing", "Mortgage", 500>>,
    <<M12, 2025, "Food", "Food (Groceries)", 500>> }

\* (date, category, subcategory, amount) added as expenses.
BvaExpenseInputs ==
  { <<D_2024_03_15, "Food", "Food (Groceries)", 450>>,
    <<D_2024_03_15, "Food", "Food (Groceries)", 150>>,
    <<D_2024_03_15, "Food", "Food (Take Out)", 150>>,
    <<D_2024_03_15, "Housing", "Mortgage", 450>>,
    <<D_2025_12_01, "Food", "Food (Groceries)", 450>> }

BvaPeriods == { <<M03, 2024>>, <<M12, 2025>> }

BvaWrites == sqlite_sequence["budget_plans"] + sqlite_sequence["expenses"]

NextBva ==
  \/ \E p \in BvaPlanInputs :
       /\ BvaWrites < MaxBvaWrites
       /\ UpdateBudgetPlan(p[1], p[2], p[3], p[4], p[5])
  \/ \E e \in BvaExpenseInputs :
       /\ BvaWrites < MaxBvaWrites
       /\ AddExpense(e[1], e[2], e[3], e[4], "Joint", "", "Checking", TRUE)
  \/ \E q \in BvaPeriods : GetBudgetVsActual(q[1], q[2])

SpecBva == Init /\ [][NextBva]_vars

\* What the tables hold for a period and a (category, subcategory) pair.
PlansOf(month, year, cat, subcat) ==
  { i \in DOMAIN budget_plans :
      /\ budget_plans[i].month = month /\ budget_plans[i].year = year
      /\ budget_plans[i].category = cat /\ budget_plans[i].subcategory = subcat }

ExpensesOf(month, year, cat, subcat) ==
  { i \in DOMAIN expenses :
      /\ expenses[i].month = month /\ expenses[i].year = year
      /\ expenses[i].category = cat /\ expenses[i].subcategory = subcat }

ActualOf(month, year, cat, subcat) ==
  SumOver(expenses, ExpensesOf(month, year, cat, subcat), "amount")

StoredPairs ==
  { <<budget_plans[i].category, budget_plans[i].subcategory>> : i \in DOMAIN budget_plans }
    \cup { <<expenses[i].category, expenses[i].subcategory>> : i \in DOMAIN expenses }

HasEntry(comparison, pair) ==
  pair[1] \in DOMAIN comparison /\ pair[2] \in DOMAIN comparison[pair[1]]

\* percentage = actual / planned x 100, as exact quotients.
IsPercentOf(percentage, actual, planned) ==
  percentage.den # 0 /\ percentage.num * planned = actual * 100 * percentage.den

IsZeroPercent(percentage) == percentage.den # 0 /\ percentage.num = 0

\* C2: in the report of a period, every pair with both a plan and an
\* expense in the period has planned = the plan's amount, actual = the sum of
\* the period's expense amounts of the pair, variance = planned - actual, and
\* percentage = actual / planned x 100 when planned > 0 and 0 otherwise.
C2_PlannedAndActual ==
  last.op = "get_budget_vs_actual" =>
    \A pair \in StoredPairs :
      LET m == last.args[1]
          y == last.args[2]
          plans == PlansOf(m, y, pair[1], pair[2])
          actual == ActualOf(m, y, pair[1], pair[2])
      IN (plans # {} /\ ExpensesOf(m, y, pair[1], pair[2]) # {}) =>
           /\ HasEntry(last.ret, pair)
           /\ \A i \in plans :
                LET e == last.ret[pair[1]][pair[2]]
                    planned == budget_plans[i].planned_amount
                IN /\ e.planned = planned
                   /\ e.actual = actual
                   /\ e.variance = planned - actual
                   /\ planned > 0 => IsPercentOf(e.percentage, actual, planned)
                   /\ ~(planned > 0) => IsZeroPercent(e.percentage)

\* The report holds a pair planned at 500 with two expenses summing to 600:
\* variance -100 and percentage 120.
C2_Witness ==
  /\ last.op = "get_budget_vs_actual"
  /\ \E pair \in StoredPairs :
       /\ Cardinality(ExpensesOf(last.args[1], last.args[2], pair[1], pair[2])) = 2
       /\ HasEntry(last.ret, pair)
       /\ last.ret[pair[1]][pair[2]].planned = 500
       /\ last.ret[pair[1]][pair[2]].actual = 600
       /\ last.ret[pair[1]][pair[2]].variance = 0 - 100
       /\ IsPercentOf(last.ret[pair[1]][pair[2]].percentage, 120, 100)

\* C3: in the report of a period, every pair with expenses in the period
\* and no plan for the period has planned = 0, actual = the summed expense
\* amount, variance = -actual and percentage = 0.
C3_ActualOnly ==
  last.op = "get_budget_vs_actual" =>
    \A pair \in StoredPairs :
      LET m == last.args[1]
          y == last.args[2]
          actual == ActualOf(m, y, pair[1], pair[2])
      IN (PlansOf(m, y, pair[1], pair[2]) = {} /\ ExpensesOf(m, y, pair[1], pair[2]) # {}) =>
           /\ HasEntry(last.ret, pair)
           /\ last.ret[pair[1]][pair[2]].planned = 0
           /\ last.ret[pair[1]][pair[2]].actual = actual
           /\ last.ret[pair[1]][pair[2]].variance = 0 - actual
           /\ IsZeroPercent(last.ret[pair[1]][pair[2]].percentage)

\* The report of a period holds a pair with expenses and no plan in the
\* period, while the same pair is planned in another period.
C3_Witness ==
  /\ last.op = "get_budget_vs_actual"
  /\ \E pair \in StoredPairs :
       /\ PlansOf(last.args[1], last.args[2], pair[1], pair[2]) = {}
       /\ \E i \in DOMAIN budget_plans :
            budget_plans[i].category = pair[1] /\ budget_plans[i].subcategory = pair[2]
       /\ ExpensesOf(last.args[1], last.args[2], pair[1], pair[2]) # {}
       /\ HasEntry(last.ret, pair)
       /\ last.ret[pair[1]][pair[2]].actual > 0

\* C4: in the report of a period, every pair with a plan for the period
\* and no expense in the period has actual = 0, variance = planned - actual
\* (the planned amount) and percentage = 0.
C4_PlanOnly ==
  last.op = "get_budget_vs_actual" =>
    \A pair \in StoredPairs :
      LET m == last.args[1]
          y == last.args[2]
          plans == PlansOf(m, y, pair[1], pair[2])
      IN (plans # {} /\ ExpensesOf(m, y, pair[1], pair[2]) = {}) =>
           /\ HasEntry(last.ret, pair)
           /\ \A i \in plans :
                LET e == last.ret[pair[1]][pair[2]]
                IN /\ e.actual = 0
                   /\ e.variance = budget_plans[i].planned_amount - e.actual
                   /\ IsZeroPercent(e.percentage)

(***************************************************************************)
(* copy_budget_from_previous_month.                                        *)
(***************************************************************************)
\* PreviousPeriod with the month number not padded back to two characters.
PreviousPeriod_NoZFill(target_month, target_year) ==
  LET n == PyInt(target_month)
  IN IF ~n.ok THEN [raised |-> "ValueError", month |-> <<>>, year |-> 0]
     ELSE IF n.val = 1 THEN [raised |-> None, month |-> <<"1", "2">>, year |-> target_year - 1]
     ELSE [raised |-> None, month |-> PyStr(n.val - 1), year |-> target_year]

\* Lines 788-793: the period whose plans are read.
PreviousPeriod(target_month, target_year) ==
  LET n == PyInt(target_month)
  IN IF ~n.ok THEN [raised |-> "ValueError", month |-> <<>>, year |-> 0]
     ELSE IF n.val = 1 THEN [raised |-> None, month |-> <<"1", "2">>, year |-> target_year - 1]
     ELSE [raised |-> None, month |-> ZFill2(PyStr(n.val - 1)), year |-> target_year]

\* Lines 796-800: the fetched rows of a period, as a list.
FetchPlans(month, year) ==
  LET ids == Ascending({ i \in DOMAIN budget_plans :
                           budget_plans[i].month = month /\ budget_plans[i].year = year })
  IN [k \in 1..Len(ids) |-> budget_plans[ids[k]]]

\* Lines 803-808: update_budget_plan for each fetched row, in order.
CopyRows(st0, rows, target_month, target_year) ==
  LET RECURSIVE C(_, _)
      C(st, k) ==
        IF k > Len(rows) THEN st
        ELSE C(InsertOrReplacePlan(st, target_month, target_year, rows[k].category,
                                   rows[k].subcategory, rows[k].planned_amount), k + 1)
  IN C(st0, 1)

\* The call leaves, besides its outcome, the parameters of its SELECT.
Copied(target_month, target_year, prev) ==
  [op |-> "copy_budget_from_previous_month", args |-> <<target_month, target_year>>,
   ret |-> None, raised |-> prev.raised, selected |-> <<prev.month, prev.year>>]

\* CopyBudgetFromPreviousMonth writing only the pairs the target lacks.
CopyBudgetFromPreviousMonth_KeepsTarget(target_month, target_year) ==
  LET prev == PreviousPeriod(target_month, target_year)
      rows == FetchPlans(prev.month, prev.year)
      fresh == SelectSeq(rows, LAMBDA r :
                 \A i \in DOMAIN budget_plans :
                   ~(/\ budget_plans[i].month = target_month
                     /\ budget_plans[i].year = target_year
                     /\ budget_plans[i].category = r.category
                     /\ budget_plans[i].subcategory = r.subcategory))
      st == CopyRows([table |-> budget_plans, seq |-> sqlite_sequence], fresh,
                     target_month, target_year)
  IN /\ prev.raised = None
     /\ budget_plans' = st.table
     /\ sqlite_sequence' = st.seq
     /\ last' = Copied(target_month, target_year, prev)
     /\ UNCHANGED <<income, expenses, investment_accounts, real_assets, savings_goals, history>>

\* CopyBudgetFromPreviousMonth emptying the target period before it copies.
CopyBudgetFromPreviousMonth_ClearsTarget(target_month, target_year) ==
  LET prev == PreviousPeriod(target_month, target_year)
      rows == FetchPlans(prev.month, prev.year)
      cleared == [i \in { j \in DOMAIN budget_plans :
                            ~(/\ budget_plans[j].month = target_month
                              /\ budget_plans[j].year = target_year) } |-> budget_plans[i]]
      st == CopyRows([table |-> cleared, seq |-> sqlite_sequence], rows,
                     target_month, target_year)
  IN /\ prev.raised = None
     /\ budget_plans' = st.table
     /\ sqlite_sequence' = st.seq
     /\ last' = Copied(target_month, target_year, prev)
     /\ UNCHANGED <<income, expenses, investment_accounts, real_assets, savings_goals, history>>

CopyBudgetFromPreviousMonth(target_month, target_year) ==
  LET prev == PreviousPeriod(target_month, target_year)
      rows == FetchPlans(prev.month, prev.year)
      st == CopyRows([table |-> budget_plans, seq |-> sqlite_sequence], rows,
                     target_month, target_year)
  IN /\ IF prev.raised # None
        THEN /\ budget_plans' = budget_plans
             /\ sqlite_sequence' = sqlite_sequence
        ELSE /\ budget_plans' = st.table
             /\ sqlite_sequence' = st.seq
     /\ last' = Copied(target_month, target_year, prev)
     /\ UNCHANGED <<income, expenses, investment_accounts, real_assets, savings_goals, history>>

(***************************************************************************)
(* Plans written and copied across a year boundary.                        *)
(***************************************************************************)
\* The number of budget-plan rows inserted in the explored runs.
MaxPlanWrites == 3

M01 == <<"0", "1">>

M02 == <<"0", "2">>

\* The target months "01" .. "12".
MonthNames ==
  << <<"0", "1">>, <<"0", "2">>, <<"0", "3">>, <<"0", "4">>, <<"0", "5">>, <<"0", "6">>,
     <<"0", "7">>, <<"0", "8">>, <<"0", "9">>, <<"1", "0">>, <<"1", "1">>, <<"1", "2">> >>

PlanInputs ==
  { <<M12, 2024, "Food", "Food (Groceries)", 500>>,
    <<M12, 2024, "Food", "Food (Groceries)", 200>>,
    <<M12, 2024, "Housing", "Mortgage", 300>>,
    <<M01, 2025, "Food", "Food (Groceries)", 300>>,
    <<M02, 2025, "Housing", "Mortgage", 700>> }

NextPlans ==
  \/ \E p \in PlanInputs :
       /\ sqlite_sequence["budget_plans"] < MaxPlanWrites
       /\ UpdateBudgetPlan(p[1], p[2], p[3], p[4], p[5])
  \/ \E k \in 1..12 :
       LET prev == PreviousPeriod(MonthNames[k], 2025)
       IN /\ sqlite_sequence["budget_plans"] + Len(FetchPlans(prev.month, prev.year))
               <= MaxPlanWrites
          /\ CopyBudgetFromPreviousMonth(MonthNames[k], 2025)

SpecPlans == Init /\ [][NextPlans]_vars

\* The calendar month before month k of year y.
Preceding(k, y) == IF k = 1 THEN <<MonthNames[12], y - 1>> ELSE <<MonthNames[k - 1], y>>

\* C5: copy_budget_from_previous_month reads the plans of the calendar
\* month before the target: month "12" of the year before for target "01",
\* and the zero-padded month one lower in the same year for "02" .. "12".
C5_ReadsPrecedingMonth ==
  last.op = "copy_budget_from_previous_month" =>
    \A k \in 1..12 :
      last.args[1] = MonthNames[k] =>
        /\ last.raised = None
        /\ last.selected = Preceding(k, last.args[2])

\* A copy into ("01", 2025) has read ("12", 2024) and found plans there.
C5_Witness ==
  /\ last.op = "copy_budget_from_previous_month"
  /\ last.args = <<M01, 2025>>
  /\ last.selected = <<M12, 2024>>
  /\ \E i \in DOMAIN budget_plans :
       budget_plans[i].month = M12 /\ budget_plans[i].year = 2024
  /\ \E j \in DOMAIN budget_plans :
       budget_plans[j].month = M01 /\ budget_plans[j].year = 2025

\* The rows of the plan table `tbl` under a key, and the keys it holds.
PlansIn(tbl, month, year, cat, subcat) ==
  { i \in DOMAIN tbl :
      /\ tbl[i].month = month /\ tbl[i].year = year
      /\ tbl[i].category = cat /\ tbl[i].subcategory = subcat }

KeyOf(row) == <<row.month, row.year, row.category, row.subcategory>>

\* The (key, amount) pairs of `tbl` outside the keys `keys`.
PlansOutside(tbl, keys) ==
  { <<KeyOf(tbl[i]), tbl[i].planned_amount>> : i \in { j \in DOMAIN tbl : KeyOf(tbl[j]) \notin keys } }

MonthIndex(month) == CHOOSE k \in 1..12 : MonthNames[k] = month

\* C6: when copy_budget_from_previous_month returns, every pair planned in
\* the preceding period has a plan in the target period with the same
\* amount, and the target holds no other amount for that pair.
C6_CopyUpsertsEveryPair ==
  [][(last'.op = "copy_budget_from_previous_month" /\ last'.raised = None) =>
       LET tm == last'.args[1]
           ty == last'.args[2]
           src == Preceding(MonthIndex(tm), ty)
       IN \A i \in DOMAIN budget_plans :
            (budget_plans[i].month = src[1] /\ budget_plans[i].year = src[2]) =>
              LET target == PlansIn(budget_plans', tm, ty, budget_plans[i].category,
                                    budget_plans[i].subcategory)
              IN /\ target # {}
                 /\ \A j \in target :
                      budget_plans'[j].planned_amount = budget_plans[i].planned_amount
    ]_vars

\* A copy into ("01", 2025) has replaced the January row written second
\* (id 2) by a row (id 3) holding the December amount of the same pair.
C6_Witness ==
  /\ last.op = "copy_budget_from_previous_month"
  /\ last.args = <<M01, 2025>>
  /\ DOMAIN budget_plans = {1, 3}
  /\ KeyOf(budget_plans[1]) = <<M12, 2024, "Food", "Food (Groceries)">>
  /\ KeyOf(budget_plans[3]) = <<M01, 2025, "Food", "Food (Groceries)">>
  /\ budget_plans[3].planned_amount = budget_plans[1].planned_amount
  /\ budget_plans[3].planned_amount # 300

UniquePlanKeys(tbl) == \A i, j \in DOMAIN tbl : KeyOf(tbl[i]) = KeyOf(tbl[j]) => i = j

\* C7: after every update_budget_plan and copy_budget_from_previous_month
\* there is at most one plan row per (month, year, category, subcategory);
\* a write to a key raises nothing and leaves that key with one row holding
\* the written amount, and the amount under every other key is as it was.
C7_UpsertByKey ==
  [][/\ UniquePlanKeys(budget_plans')
     /\ last'.op = "update_budget_plan" =>
          LET a == last'.args
              rows == PlansIn(budget_plans', a[1], a[2], a[3], a[4])
          IN /\ last'.raised = None
             /\ Cardinality(rows) = 1
             /\ \A i \in rows : budget_plans'[i].planned_amount = a[5]
             /\ PlansOutside(budget_plans', {<<a[1], a[2], a[3], a[4]>>})
                  = PlansOutside(budget_plans, {<<a[1], a[2], a[3], a[4]>>})
     /\ (last'.op = "copy_budget_from_previous_month" /\ last'.raised = None) =>
          LET tm == last'.args[1]
              ty == last'.args[2]
              src == { i \in DOMAIN budget_plans :
                         <<budget_plans[i].month, budget_plans[i].year>> = last'.selected }
              written == { <<tm, ty, budget_plans[i].category, budget_plans[i].subcategory>> :
                             i \in src }
          IN /\ \A i \in src :
                  LET rows == PlansIn(budget_plans', tm, ty, budget_plans[i].category,
                                      budget_plans[i].subcategory)
                  IN /\ Cardinality(rows) = 1
                     /\ \A j \in rows :
                          budget_plans'[j].planned_amount = budget_plans[i].planned_amount
             /\ PlansOutside(budget_plans', written) = PlansOutside(budget_plans, written)
    ]_vars

\* The second write went to the key of the first with another amount: one
\* row is left, under a new id, holding the second amount.
C7_Witness ==
  /\ last.op = "update_budget_plan"
  /\ sqlite_sequence["budget_plans"] = 2
  /\ DOMAIN budget_plans = {2}
  /\ budget_plans[2].planned_amount = 200
  /\ last.args[5] = 200

(***************************************************************************)
(* Investment accounts, real assets and the net worth summary.             *)
(***************************************************************************)
\* fetchone() of SELECT current_balance ... WHERE account_name = ?: the
\* first matching row as <<row>>, or <<>> for None.
FetchAccount(account_name) ==
  LET ids == Ascending({ i \in DOMAIN investment_accounts :
                           investment_accounts[i].account_name = account_name })
  IN IF ids = <<>> THEN <<>> ELSE <<investment_accounts[ids[1]]>>

\* UpdateInvestmentAccount with previous_balance set to the new balance.
UpdateInvestmentAccount_PreviousIsNew(account_name, new_balance) ==
  /\ investment_accounts' =
       [i \in DOMAIN investment_accounts |->
          IF investment_accounts[i].account_name = account_name
          THEN [investment_accounts[i] EXCEPT !.previous_balance = new_balance,
                                              !.current_balance = new_balance]
          ELSE investment_accounts[i]]
  /\ last' = Returned("update_investment_account", <<account_name, new_balance>>, None)
  /\ UNCHANGED <<income, expenses, budget_plans, real_assets, savings_goals, sqlite_sequence, history>>

\* UpdateInvestmentAccount creating the account when no row has the name.
UpdateInvestmentAccount_Upserts(account_name, new_balance) ==
  LET result == FetchAccount(account_name)
      previous_balance == IF result # <<>> THEN result[1].current_balance ELSE 0
      id == sqlite_sequence["investment_accounts"] + 1
      updated == [i \in DOMAIN investment_accounts |->
                    IF investment_accounts[i].account_name = account_name
                    THEN [investment_accounts[i] EXCEPT !.previous_balance = previous_balance,
                                                        !.current_balance = new_balance]
                    ELSE investment_accounts[i]]
  IN /\ IF result # <<>>
        THEN /\ investment_accounts' = updated
             /\ sqlite_sequence' = sqlite_sequence
        ELSE /\ investment_accounts' =
                  With(investment_accounts, id,
                       [account_name |-> account_name, account_type |-> "Cash",
                        liquidity |-> "Liquid", person |-> "Joint", institution |-> "",
                        current_balance |-> new_balance, previous_balance |-> 0])
             /\ sqlite_sequence' = [sqlite_sequence EXCEPT !["investment_accounts"] = id]
     /\ last' = Returned("update_investment_account", <<account_name, new_balance>>, None)
     /\ UNCHANGED <<income, expenses, budget_plans, real_assets, savings_goals, history>>

UpdateInvestmentAccount(account_name, new_balance) ==
  LET result == FetchAccount(account_name)
      previous_balance == IF result # <<>> THEN result[1].current_balance ELSE 0
  IN /\ investment_accounts' =
          [i \in DOMAIN investment_accounts |->
             IF investment_accounts[i].account_name = account_name
             THEN [investment_accounts[i] EXCEPT !.previous_balance = previous_balance,
                                                 !.current_balance = new_balance]
             ELSE investment_accounts[i]]
     /\ last' = Returned("update_investment_account", <<account_name, new_balance>>, None)
     /\ UNCHANGED <<income, expenses, budget_plans, real_assets, savings_goals,
                    sqlite_sequence, history>>

\* UPDATE real_assets SET current_value = ? WHERE asset_name = ?
UpdateRealAsset(asset_name, new_value) ==
  /\ real_assets' =
       [i \in DOMAIN real_assets |->
          IF real_assets[i].asset_name = asset_name
          THEN [real_assets[i] EXCEPT !.current_value = new_value]
          ELSE real_assets[i]]
  /\ last' = Returned("update_real_asset", <<asset_name, new_value>>, None)
  /\ UNCHANGED <<income, expenses, budget_plans, investment_accounts, savings_goals,
                 sqlite_sequence, history>>

\* d[key] += amount, with d[key] = 0 first when the key is absent.
Accumulate(d, key, amount) == With(d, key, (IF key \in DOMAIN d THEN d[key] ELSE 0) + amount)

\* AddAccount with the change taken as the current balance alone.
AddAccount_ChangeIsCurrent(summary, row) ==
  [summary EXCEPT
     !.liquid_assets = IF row.liquidity = "Liquid" THEN @ + row.current_balance ELSE @,
     !.semi_liquid_assets = IF row.liquidity = "Semi-Liquid" THEN @ + row.current_balance ELSE @,
     !.non_liquid_assets = IF row.liquidity \notin {"Liquid", "Semi-Liquid"}
                           THEN @ + row.current_balance ELSE @,
     !.by_account_type = Accumulate(@, row.account_type, row.current_balance),
     !.by_person = IF row.person # "" THEN Accumulate(@, row.person, row.current_balance) ELSE @,
     !.month_over_month_change = @ + row.current_balance]

\* AddAccount with every tier but 'Liquid' counted as non-liquid.
AddAccount_SemiAsNonLiquid(summary, row) ==
  [summary EXCEPT
     !.liquid_assets = IF row.liquidity = "Liquid" THEN @ + row.current_balance ELSE @,
     !.non_liquid_assets = IF row.liquidity # "Liquid" THEN @ + row.current_balance ELSE @,
     !.by_account_type = Accumulate(@, row.account_type, row.current_balance),
     !.by_person = IF row.person # "" THEN Accumulate(@, row.person, row.current_balance) ELSE @,
     !.month_over_month_change = @ + (row.current_balance - row.previous_balance)]

\* Lines 504-527: one investment account added to the summary.
AddAccount(summary, row) ==
  [summary EXCEPT
     !.liquid_assets = IF row.liquidity = "Liquid" THEN @ + row.current_balance ELSE @,
     !.semi_liquid_assets = IF row.liquidity = "Semi-Liquid" THEN @ + row.current_balance ELSE @,
     !.non_liquid_assets = IF row.liquidity \notin {"Liquid", "Semi-Liquid"}
                           THEN @ + row.current_balance ELSE @,
     !.by_account_type = Accumulate(@, row.account_type, row.current_balance),
     !.by_person = IF row.person # "" THEN Accumulate(@, row.person, row.current_balance) ELSE @,
     !.month_over_month_change = @ + (row.current_balance - row.previous_balance)]

\* The summary of the account rows `accounts` and the asset rows `assets`.
NetWorthSummary(accounts, assets) ==
  LET ids == Ascending(DOMAIN accounts)
      RECURSIVE A(_, _)
      A(summary, k) == IF k > Len(ids) THEN summary
                       ELSE A(AddAccount(summary, accounts[ids[k]]), k + 1)
      invested == A([liquid_assets |-> 0, semi_liquid_assets |-> 0, non_liquid_assets |-> 0,
                     real_assets |-> 0, total_assets |-> 0, by_account_type |-> <<>>,
                     by_person |-> <<>>, month_over_month_change |-> 0], 1)
      \* SELECT SUM(current_value) FROM real_assets; 0 when the sum is NULL or 0
      real == SumOver(assets, DOMAIN assets, "current_value")
  IN [invested EXCEPT
        !.real_assets = real,
        !.total_assets = invested.liquid_assets + invested.semi_liquid_assets
                           + invested.non_liquid_assets + real]

get_net_worth_summary == NetWorthSummary(investment_accounts, real_assets)

GetNetWorthSummary ==
  /\ last' = Returned("get_net_worth_summary", <<>>, get_net_worth_summary)
  /\ UNCHANGED <<income, expenses, budget_plans, investment_accounts, real_assets,
                 savings_goals, sqlite_sequence, history>>

(***************************************************************************)
(* Balance updates of two seeded accounts and of a name no account has.    *)
(***************************************************************************)
AccountNames == {"Checking", "HSA", "Brokerage"}

Balances == {100, 250}

AssetValues == {30000}

NextInvest ==
  \/ \E name \in AccountNames, b \in Balances : UpdateInvestmentAccount(name, b)
  \/ \E v \in AssetValues : UpdateRealAsset("Tiguan", v)
  \/ GetNetWorthSummary

SpecInvest == Init /\ [][NextInvest]_vars

Exists(account_name) ==
  \E i \in DOMAIN investment_accounts : investment_accounts[i].account_name = account_name

\* C8: every update_investment_account(name, new_balance) on an existing
\* account sets that account's previous_balance to the current_balance it
\* held just before the call and its current_balance to new_balance, and
\* leaves the balances of every other account unchanged.
C8_PreviousIsPriorCurrent ==
  [][(last'.op = "update_investment_account" /\ Exists(last'.args[1])) =>
       /\ DOMAIN investment_accounts' = DOMAIN investment_accounts
       /\ \A i \in DOMAIN investment_accounts :
            IF investment_accounts[i].account_name = last'.args[1]
            THEN /\ investment_accounts'[i].previous_balance
                      = investment_accounts[i].current_balance
                 /\ investment_accounts'[i].current_balance = last'.args[2]
            ELSE /\ investment_accounts'[i].previous_balance
                      = investment_accounts[i].previous_balance
                 /\ investment_accounts'[i].current_balance
                      = investment_accounts[i].current_balance
    ]_vars

\* An account updated more than once now holds the new balance over a
\* different, non-zero earlier one, beside another account with a balance.
C8_Witness ==
  /\ last.op = "update_investment_account"
  /\ \E i, j \in DOMAIN investment_accounts :
       /\ investment_accounts[i].account_name = last.args[1]
       /\ investment_accounts[i].current_balance = last.args[2]
       /\ investment_accounts[i].previous_balance \notin {0, last.args[2]}
       /\ j # i
       /\ investment_accounts[j].current_balance # 0

\* The sum over all accounts of current_balance - previous_balance.
TotalChange(accounts) ==
  SumOver(accounts, DOMAIN accounts, "current_balance")
    - SumOver(accounts, DOMAIN accounts, "previous_balance")

Settled == \A i \in DOMAIN investment_accounts :
             investment_accounts[i].current_balance = investment_accounts[i].previous_balance

\* C9: get_net_worth_summary reports month_over_month_change equal to the
\* sum over all investment accounts of current_balance - previous_balance;
\* and one update of one account from old to new, made when every account
\* has current = previous, makes the reported change new - old.
C9_MonthOverMonthChange ==
  [][/\ last'.op = "get_net_worth_summary" =>
          last'.ret.month_over_month_change = TotalChange(investment_accounts')
     /\ (last'.op = "update_investment_account" /\ Exists(last'.args[1]) /\ Settled) =>
          \A i \in DOMAIN investment_accounts :
            investment_accounts[i].account_name = last'.args[1] =>
              NetWorthSummary(investment_accounts', real_assets').month_over_month_change
                = last'.args[2] - investment_accounts[i].current_balance
    ]_vars

\* The summary reports 150 after one account went from 100 (current and
\* previous) to 250 while every other account has current = previous.
C9_Witness ==
  /\ last.op = "get_net_worth_summary"
  /\ last.ret.month_over_month_change = 150
  /\ \E i \in DOMAIN investment_accounts :
       /\ investment_accounts[i].current_balance = 250
       /\ investment_accounts[i].previous_balance = 100
       /\ \A j \in DOMAIN investment_accounts \ {i} :
            investment_accounts[j].current_balance = investment_accounts[j].previous_balance

(***************************************************************************)
(* Savings goals.                                                          *)
(***************************************************************************)
\* contribute with the amount stored in place of the sum.
contribute_Overwrites(goals, goal_id, amount) ==
  [i \in DOMAIN goals |->
     IF i = goal_id THEN [goals[i] EXCEPT !.current_amount = amount] ELSE goals[i]]

\* contribute with the size of the amount added, whatever its sign.
contribute_Absolute(goals, goal_id, amount) ==
  [i \in DOMAIN goals |->
     IF i = goal_id
     THEN [goals[i] EXCEPT !.current_amount = @ + (IF amount < 0 THEN 0 - amount ELSE amount)]
     ELSE goals[i]]

\* UPDATE savings_goals SET current_amount = current_amount + ? WHERE id = ?
contribute(goals, goal_id, amount) ==
  [i \in DOMAIN goals |->
     IF i = goal_id THEN [goals[i] EXCEPT !.current_amount = @ + amount] ELSE goals[i]]

UpdateSavingsGoalContribution(goal_id, amount) ==
  /\ savings_goals' = contribute(savings_goals, goal_id, amount)
  /\ last' = Returned("update_savings_goal_contribution", <<goal_id, amount>>, None)
  /\ history' = Append(history, [op |-> "update_savings_goal_contribution",
                                 goal_id |-> goal_id, amount |-> amount])
  /\ UNCHANGED <<income, expenses, budget_plans, investment_accounts, real_assets,
                 sqlite_sequence>>

\* UPDATE savings_goals SET current_amount = ? WHERE id = ?
UpdateSavingsGoal(goal_id, current_amount) ==
  /\ savings_goals' =
       [i \in DOMAIN savings_goals |->
          IF i = goal_id THEN [savings_goals[i] EXCEPT !.current_amount = current_amount]
          ELSE savings_goals[i]]
  /\ last' = Returned("update_savings_goal", <<goal_id, current_amount>>, None)
  /\ history' = Append(history, [op |-> "update_savings_goal",
                                 goal_id |-> goal_id, amount |-> current_amount])
  /\ UNCHANGED <<income, expenses, budget_plans, investment_accounts, real_assets,
                 sqlite_sequence>>

(***************************************************************************)
(* Contributions to, and settings of, two seeded goals and an absent id.   *)
(***************************************************************************)
\* The number of calls to the savings-goal methods in the explored runs.
MaxGoalCalls == 3

GoalIds == {1, 2, 9}

Contributions == {100, 50, 0 - 30}

SetAmounts == {500}

NextGoals ==
  \/ \E g \in GoalIds, a \in Contributions :
       /\ Len(history) < MaxGoalCalls
       /\ UpdateSavingsGoalContribution(g, a)
  \/ \E g \in GoalIds, x \in SetAmounts :
       /\ Len(history) < MaxGoalCalls
       /\ UpdateSavingsGoal(g, x)

SpecGoals == Init /\ [][NextGoals]_vars

\* The position in `hist` of the last update_savings_goal of goal g, or 0.
LastSet(hist, g) ==
  LET sets == { k \in 1..Len(hist) :
                  hist[k].op = "update_savings_goal" /\ hist[k].goal_id = g }
  IN IF sets = {} THEN 0 ELSE CHOOSE k \in sets : \A j \in sets : j <= k

\* The starting amount of goal g (0 for a seeded goal, x after a set to x)
\* plus its later contributions, summed in no particular order.
Expected(hist, g) ==
  LET from == LastSet(hist, g)
      later == { k \in (from + 1)..Len(hist) :
                   /\ hist[k].op = "update_savings_goal_contribution"
                   /\ hist[k].goal_id = g }
  IN (IF from = 0 THEN 0 ELSE hist[from].amount) + SumOver(hist, later, "amount")

\* C10: after any sequence of contributions a_1 .. a_n to a goal holding c
\* its current_amount is c + a_1 + ... + a_n, whatever their order, and no
\* other goal has changed; update_savings_goal(goal_id, x) sets the
\* current_amount to exactly x.
C10_ContributionsAccumulate ==
  [][/\ \A g \in DOMAIN savings_goals' :
          savings_goals'[g].current_amount = Expected(history', g)
     /\ \A g \in DOMAIN savings_goals :
          /\ g \in DOMAIN savings_goals'
          /\ g # last'.args[1] => savings_goals'[g] = savings_goals[g]
          /\ [savings_goals'[g] EXCEPT !.current_amount = 0]
               = [savings_goals[g] EXCEPT !.current_amount = 0]
     /\ (last'.op = "update_savings_goal" /\ last'.args[1] \in DOMAIN savings_goals) =>
          savings_goals'[last'.args[1]].current_amount = last'.args[2]
     /\ (last'.op = "update_savings_goal_contribution"
           /\ last'.args[1] \in DOMAIN savings_goals) =>
          savings_goals'[last'.args[1]].current_amount
            = savings_goals[last'.args[1]].current_amount + last'.args[2]
    ]_vars

\* Contributions of 100 and then 50 to goal 1, with a contribution to goal 2
\* between them, have left goal 1 at 150.
C10_Witness ==
  /\ Len(history) = 3
  /\ \A k \in 1..3 : history[k].op = "update_savings_goal_contribution"
  /\ <<history[1].goal_id, history[1].amount>> = <<1, 100>>
  /\ history[2].goal_id = 2
  /\ <<history[3].goal_id, history[3].amount>> = <<1, 50>>
  /\ savings_goals[1].current_amount = 150
  /\ savings_goals[2].current_amount = history[2].amount

(***************************************************************************)
(* CSV files with rows that fail: a non-numeric Amount, a Date without     *)
(* separators.                                                             *)
(***************************************************************************)
\* The longest CSV file, and the number of rows inserted into the income
\* and expense tables together, in the explored runs.
MaxImportLen == 3

MaxImportIds == 4

GoodCsvRows == { CsvRow(D_2024_03_15, <<"4", "5">>) }

BadCsvRows ==
  { CsvRow(D_2024_03_15, <<"a", "b", "c">>),
    CsvRow(<<"2", "0", "2", "4", "0", "3">>, <<"4", "5">>) }

ImportCsvFiles == UNION { [1..n -> GoodCsvRows \cup BadCsvRows] : n \in 1..MaxImportLen }

NextImport ==
  \E file \in ImportCsvFiles, t \in {"expenses", "income"} :
    /\ Inserted + Len(file) <= MaxImportIds
    /\ ImportCsvData(file, t, Today)

SpecImport == Init /\ [][NextImport]_vars

\* The positions of the data rows of `file` that cannot be added.
FailingRows(file) == { k \in 1..Len(file) : file[k] \in BadCsvRows }

\* C11: import_csv_data on a readable file of N data rows returns
\* success = true, imported = the number of rows whose add succeeded and one
\* errors entry per row that failed, so imported + len(errors) = N; exactly
\* `imported` new rows exist in the target table and nothing else changed.
\* With the one failing row in row 3, imported = N - 1 with one error entry.
C11_ImportNeverAborts ==
  [][last'.op = "import_csv_data" =>
       LET file == last'.args[1]
           ret == last'.ret
           target == IF last'.args[2] = "expenses" THEN expenses ELSE income
           target2 == IF last'.args[2] = "expenses" THEN expenses' ELSE income'
       IN /\ ret.success = TRUE
          /\ ret.imported = Len(file) - Cardinality(FailingRows(file))
          /\ Len(ret.errors) = Cardinality(FailingRows(file))
          /\ ret.imported + Len(ret.errors) = Len(file)
          /\ DOMAIN target \subseteq DOMAIN target2
          /\ Cardinality(DOMAIN target2 \ DOMAIN target) = ret.imported
          /\ \A i \in DOMAIN target : target2[i] = target[i]
          /\ last'.args[2] = "expenses" => income' = income
          /\ last'.args[2] = "income" => expenses' = expenses
          /\ FailingRows(file) = {3} => (ret.imported = Len(file) - 1 /\ Len(ret.errors) = 1)
    ]_vars

\* A file of three rows whose third has a non-numeric amount was imported
\* into a table that already held a row: two rows added, one error.
C11_Witness ==
  /\ last.op = "import_csv_data"
  /\ last.args[2] = "expenses"
  /\ Len(last.args[1]) = 3
  /\ FailingRows(last.args[1]) = {3}
  /\ last.args[1][3]["Amount"] = <<"a", "b", "c">>
  /\ last.ret.imported = 2
  /\ Len(last.ret.errors) = 1
  /\ DOMAIN expenses = {1, 2, 3}
  /\ sqlite_sequence["expenses"] = 3

\* C12: every error entry of import_csv_data carries the 1-based index of
\* the data row that failed: the entries name, in order, the failing rows.
C12_ErrorRowIndex ==
  last.op = "import_csv_data" =>
    LET failing == Ascending(FailingRows(last.args[1]))
    IN /\ Len(last.ret.errors) = Len(failing)
       /\ \A k \in 1..Len(failing) : last.ret.errors[k].row = failing[k]

\* The tables and AUTOINCREMENT counters: the persistent state.
database == <<income, expenses, budget_plans, investment_accounts, real_assets,
              savings_goals, sqlite_sequence>>

\* `table2` is `table` without the row `id`, every other row as it was.
RemovedOnly(table, table2, id) ==
  /\ DOMAIN table2 = DOMAIN table \ {id}
  /\ \A i \in DOMAIN table2 : table2[i] = table[i]

\* C13: delete_income(id) and delete_expense(id) remove the row with that id
\* when it exists and leave every other income and expense row unchanged;
\* when no row has that id they raise nothing and leave the whole database
\* unchanged.
C13_DeleteRemovesOnlyThatRow ==
  [][/\ last'.op = "delete_income" =>
          /\ last'.raised = None
          /\ RemovedOnly(income, income', last'.args[1])
          /\ expenses' = expenses
          /\ last'.args[1] \notin DOMAIN income => database' = database
     /\ last'.op = "delete_expense" =>
          /\ last'.raised = None
          /\ RemovedOnly(expenses, expenses', last'.args[1])
          /\ income' = income
          /\ last'.args[1] \notin DOMAIN expenses => database' = database
    ]_vars

\* Expense 1 was deleted while expense 2 and nothing else of the ledger is
\* left: the second expense row outlived the deletion of the first.
C13_Witness ==
  /\ last.op = "delete_expense"
  /\ last.args[1] = 1
  /\ DOMAIN expenses = {2}
  /\ sqlite_sequence["expenses"] = 2

(***************************************************************************)
(* Opening an existing database file: __init__ runs create_tables (CREATE  *)
(* TABLE IF NOT EXISTS: the tables are kept) and _initialize_default_data  *)
(* again.                                                                  *)
(***************************************************************************)
\* INSERT OR IGNORE of one row: ignored when a row with the same value in
\* the table's UNIQUE column exists.  `unique` is the UNIQUE column, or ""
\* where the table declares none besides its id.
InsertOrIgnore(st, name, row, unique) ==
  IF unique # "" /\ \E i \in DOMAIN st.table : st.table[i][unique] = row[unique]
  THEN st
  ELSE LET id == st.seq[name] + 1
       IN [table |-> With(st.table, id, row), seq |-> [st.seq EXCEPT ![name] = id]]

RECURSIVE SeedRows(_, _, _, _)
SeedRows(st, name, rows, unique) ==
  IF rows = <<>> THEN st
  ELSE SeedRows(InsertOrIgnore(st, name, Head(rows), unique), name, Tail(rows), unique)

Reopen ==
  LET inv == SeedRows([table |-> investment_accounts, seq |-> sqlite_sequence],
                      "investment_accounts",
                      [i \in 1..Len(default_investments) |-> InvestmentRow(default_investments[i])],
                      "account_name")
      ast == SeedRows([table |-> real_assets, seq |-> inv.seq],
                      "real_assets",
                      [i \in 1..Len(default_assets) |-> AssetRow(default_assets[i])],
                      "asset_name")
      gls == SeedRows([table |-> savings_goals, seq |-> ast.seq],
                      "savings_goals",
                      [i \in 1..Len(default_goals) |-> GoalRow(default_goals[i])],
                      "")
  IN /\ investment_accounts' = inv.table
     /\ real_assets' = ast.table
     /\ savings_goals' = gls.table
     /\ sqlite_sequence' = gls.seq
     /\ last' = Returned("__init__", <<>>, None)
     /\ history' = Append(history, [op |-> "__init__"])
     /\ UNCHANGED <<income, expenses, budget_plans>>

\* The number of times the file is opened again, and of calls between.
MaxReopens == 2

MaxReopenCalls == 3

Reopens == Cardinality({k \in 1..Len(history) : history[k].op = "__init__"})

NextReopen ==
  \/ /\ Reopens < MaxReopens
     /\ Reopen
  \/ /\ Len(history) - Reopens < MaxReopenCalls
     /\ \E g \in {1, 4}, a \in {100} : UpdateSavingsGoalContribution(g, a)
  \/ \E b \in Balances : UpdateInvestmentAccount("Checking", b)
  \/ \E v \in AssetValues : UpdateRealAsset("Tiguan", v)

SpecReopen == Init /\ [][NextReopen]_vars

\* C14: running initialization again on an existing database leaves the
\* sets of investment_accounts, real_assets and savings_goals rows as they
\* were, for any balances and amounts they hold.
C14_ReinitIsNoOp ==
  [][last'.op = "__init__" =>
       /\ investment_accounts' = investment_accounts
       /\ real_assets' = real_assets
       /\ savings_goals' = savings_goals
    ]_vars

(***************************************************************************)
(* get_monthly_data.                                                       *)
(***************************************************************************)
\* The code point of a character of a date: TEXT columns compare bytewise.
CharCode(c) == IF c = "-" THEN 45 ELSE IF c = "/" THEN 47 ELSE 48 + DigitVal(c)

\* a < b for two TEXT values.
RECURSIVE TextLess(_, _)
TextLess(a, b) ==
  IF b = <<>> THEN FALSE
  ELSE IF a = <<>> THEN TRUE
  ELSE IF Head(a) # Head(b) THEN CharCode(Head(a)) < CharCode(Head(b))
  ELSE TextLess(Tail(a), Tail(b))

\* WHERE month = ? AND year = ?: the ids of the matching rows.
InPeriod(table, month, year) ==
  { i \in DOMAIN table : table[i].month = month /\ table[i].year = year }

\* ORDER BY date DESC, rows of one date in id order; every fetched row as the
\* dict of its columns, the id among them.
RECURSIVE OrderByDateDesc(_, _)
OrderByDateDesc(table, ids) ==
  IF ids = {} THEN <<>>
  ELSE LET m == CHOOSE x \in ids :
                  \A y \in ids \ {x} :
                     \/ TextLess(table[y].date, table[x].date)
                     \/ table[y].date = table[x].date /\ x < y
       IN <<[id |-> m] @@ table[m]>> \o OrderByDateDesc(table, ids \ {m})

\* sum(item['amount'] for item in items if keep(item)), keep given as the
\* set of positions that pass the filter.
RECURSIVE SumAmounts(_, _)
SumAmounts(items, keep) ==
  IF items = <<>> THEN 0
  ELSE (IF 1 \in keep THEN Head(items).amount ELSE 0)
       + SumAmounts(Tail(items), { k - 1 : k \in keep \ {1} })

\* The rows of SELECT category, subcategory, SUM(amount) ... GROUP BY
\* category, subcategory over the expense ids `ids`.
GroupRows(table, ids) ==
  LET pairs == { <<table[i].category, table[i].subcategory>> : i \in ids }
      RECURSIVE G(_)
      G(rest) ==
        IF rest = {} THEN <<>>
        ELSE LET p == CHOOSE x \in rest : TRUE
             IN <<[category |-> p[1], subcategory |-> p[2],
                   total |-> SumOver(table, { i \in ids : table[i].category = p[1]
                                                        /\ table[i].subcategory = p[2] },
                                     "amount")]>>
                \o G(rest \ {p})
  IN G(pairs)

\* category_totals counting each group once, whatever came before it.
AddGroup_TotalOverwritten(totals, row) ==
  LET cat == row.category
      ct == [c \in DOMAIN totals.category_totals \cup {cat} |-> row.total]
      st0 == IF cat \in DOMAIN totals.subcategory_totals
             THEN totals.subcategory_totals[cat] ELSE <<>>
      st1 == [u \in DOMAIN st0 \cup {row.subcategory} |->
                IF u = row.subcategory THEN row.total ELSE st0[u]]
  IN [category_totals |-> ct,
      subcategory_totals |->
        [c \in DOMAIN totals.subcategory_totals \cup {cat} |->
           IF c = cat THEN st1 ELSE totals.subcategory_totals[c]]]

\* The loop body of lines 402-413 for one group row.
AddGroup(totals, row) ==
  LET cat == row.category
      ct0 == IF cat \in DOMAIN totals.category_totals
             THEN totals.category_totals[cat] ELSE 0
      st0 == IF cat \in DOMAIN totals.subcategory_totals
             THEN totals.subcategory_totals[cat] ELSE <<>>
      st1 == [u \in DOMAIN st0 \cup {row.subcategory} |->
                IF u = row.subcategory THEN row.total ELSE st0[u]]
  IN [category_totals |->
        [c \in DOMAIN totals.category_totals \cup {cat} |->
           IF c = cat THEN ct0 + row.total ELSE totals.category_totals[c]],
      subcategory_totals |->
        [c \in DOMAIN totals.subcategory_totals \cup {cat} |->
           IF c = cat THEN st1 ELSE totals.subcategory_totals[c]]]

RECURSIVE AddGroups(_, _)
AddGroups(totals, rows) ==
  IF rows = <<>> THEN totals ELSE AddGroups(AddGroup(totals, Head(rows)), Tail(rows))

\* summary with the transfers counted as income too.
Summary_TransfersCounted(inc, exp) ==
  LET all == 1..Len(inc)
      total_income == SumAmounts(inc, all)
      total_expenses == SumAmounts(exp, 1..Len(exp))
  IN [total_income |-> total_income,
      total_expenses |-> total_expenses,
      net_balance |-> total_income - total_expenses,
      transfer_in |-> SumAmounts(inc, { k \in all : inc[k].is_transfer }),
      cleared_expenses |-> SumAmounts(exp, { k \in 1..Len(exp) : exp[k].cleared }),
      pending_expenses |-> SumAmounts(exp, { k \in 1..Len(exp) : ~exp[k].cleared })]

\* The summary dict of lines 416-426 over the fetched lists.
Summary(inc, exp) ==
  LET total_income == SumAmounts(inc, { k \in 1..Len(inc) : ~inc[k].is_transfer })
      total_expenses == SumAmounts(exp, 1..Len(exp))
  IN [total_income |-> total_income,
      total_expenses |-> total_expenses,
      net_balance |-> total_income - total_expenses,
      transfer_in |-> SumAmounts(inc, { k \in 1..Len(inc) : inc[k].is_transfer }),
      cleared_expenses |-> SumAmounts(exp, { k \in 1..Len(exp) : exp[k].cleared }),
      pending_expenses |-> SumAmounts(exp, { k \in 1..Len(exp) : ~exp[k].cleared })]

get_monthly_data(month, year) ==
  LET inc == OrderByDateDesc(income, InPeriod(income, month, year))
      exp == OrderByDateDesc(expenses, InPeriod(expenses, month, year))
      totals == AddGroups([category_totals |-> <<>>, subcategory_totals |-> <<>>],
                          GroupRows(expenses, InPeriod(expenses, month, year)))
  IN [income |-> inc,
      expenses |-> exp,
      summary |-> Summary(inc, exp),
      category_totals |-> totals.category_totals,
      subcategory_totals |-> totals.subcategory_totals]

GetMonthlyData(month, year) ==
  /\ last' = Returned("get_monthly_data", <<month, year>>, get_monthly_data(month, year))
  /\ UNCHANGED <<income, expenses, budget_plans, investment_accounts, real_assets,
                 savings_goals, sqlite_sequence, history>>

(***************************************************************************)
(* Income and expenses of two months, and the monthly data of each.        *)
(***************************************************************************)
\* The number of income rows, and of expense rows, added in a run.
MaxMonthlyIncome == 2

MaxMonthlyExpenses == 3

D_2024_03_02 == <<"2", "0", "2", "4", "-", "0", "3", "-", "0", "2">>

\* (date, amount, is_transfer) of the incomes added.
MonthlyIncomeInputs ==
  { <<D_2024_03_15, 100, FALSE>>,
    <<D_2024_03_02, 40, TRUE>>,
    <<D_2025_12_01, 250, FALSE>> }

\* (date, category, subcategory, amount, cleared) of the expenses added.
MonthlyExpenseInputs ==
  { <<D_2024_03_02, "Food", "Food (Groceries)", 45, TRUE>>,
    <<D_2024_03_15, "Food", "Food (Take Out)", 20, FALSE>>,
    <<D_2024_03_15, "Housing", "Mortgage", 700, TRUE>>,
    <<D_2025_12_01, "Food", "Food (Groceries)", 30, FALSE>> }

MonthlyPeriods == { <<M03, 2024>>, <<M12, 2025>> }

NextMonthly ==
  \/ \E i \in MonthlyIncomeInputs :
       /\ sqlite_sequence["income"] < MaxMonthlyIncome
       /\ AddIncome(i[1], "Salary", i[2], "Jeff", "Checking", "", i[3], "")
  \/ \E e \in MonthlyExpenseInputs :
       /\ sqlite_sequence["expenses"] < MaxMonthlyExpenses
       /\ AddExpense(e[1], e[2], e[3], e[4], "Jeff", "", "Checking", e[5])
  \/ \E p \in MonthlyPeriods : GetMonthlyData(p[1], p[2])

SpecMonthly == Init /\ [][NextMonthly]_vars

\* The rows of `table` dated in the month `month` of `year`.
DatedIn(table, month, year) ==
  { i \in DOMAIN table : MonthOf(table[i].date) = month /\ YearOf(table[i].date) = year }

\* C15: the summary of get_monthly_data(month, year) comes from the rows of
\* that month and year only: total_income is the sum of the non-transfer
\* income amounts, transfer_in the sum of the transfer income amounts,
\* total_expenses the sum of all expense amounts, net_balance =
\* total_income - total_expenses, and cleared_expenses + pending_expenses =
\* total_expenses.
C15_MonthlySummary ==
  last.op = "get_monthly_data" =>
    LET inc == DatedIn(income, last.args[1], last.args[2])
        exp == DatedIn(expenses, last.args[1], last.args[2])
        s == last.ret.summary
    IN /\ s.total_income = SumOver(income, { i \in inc : ~income[i].is_transfer }, "amount")
       /\ s.transfer_in = SumOver(income, { i \in inc : income[i].is_transfer }, "amount")
       /\ s.total_expenses = SumOver(expenses, exp, "amount")
       /\ s.net_balance = s.total_income - s.total_expenses
       /\ s.cleared_expenses + s.pending_expenses = s.total_expenses
       /\ s.cleared_expenses = SumOver(expenses, { i \in exp : expenses[i].cleared }, "amount")

\* March 2024 was read with a salary and a transfer in it, a cleared and a
\* pending expense, and an expense of another month in the table.
C15_Witness ==
  /\ last.op = "get_monthly_data"
  /\ last.args = <<M03, 2024>>
  /\ \E i \in DOMAIN expenses : expenses[i].date = D_2025_12_01
  /\ last.ret.summary = [total_income |-> 100, transfer_in |-> 40,
                         total_expenses |-> 65, net_balance |-> 35,
                         cleared_expenses |-> 45, pending_expenses |-> 20]

\* C16: in get_monthly_data(month, year), category_totals[c] is the sum of
\* the period's expense amounts of category c and subcategory_totals[c][s]
\* the sum for the pair (c, s); category_totals[c] is the sum of
\* subcategory_totals[c], the category totals add up to total_expenses, and
\* a category without an expense in the period does not appear.
C16_CategoryTotals ==
  last.op = "get_monthly_data" =>
    LET exp == DatedIn(expenses, last.args[1], last.args[2])
        ct == last.ret.category_totals
        st == last.ret.subcategory_totals
        Of(c) == { i \in exp : expenses[i].category = c }
        SumF(f) == SumOver(f, DOMAIN f, "v")
    IN /\ DOMAIN ct = { expenses[i].category : i \in exp }
       /\ DOMAIN st = DOMAIN ct
       /\ \A c \in DOMAIN ct :
            /\ ct[c] = SumOver(expenses, Of(c), "amount")
            /\ DOMAIN st[c] = { expenses[i].subcategory : i \in Of(c) }
            /\ \A u \in DOMAIN st[c] :
                 st[c][u] = SumOver(expenses, { i \in Of(c) : expenses[i].subcategory = u }, "amount")
            /\ ct[c] = SumF([u \in DOMAIN st[c] |-> [v |-> st[c][u]]])
       /\ SumF([c \in DOMAIN ct |-> [v |-> ct[c]]]) = last.ret.summary.total_expenses

\* March 2024 was read with two Food subcategories and Housing in it: Food
\* totals 65 over its two subcategories, Housing 700, 765 in all.
C16_Witness ==
  /\ last.op = "get_monthly_data"
  /\ last.args = <<M03, 2024>>
  /\ DOMAIN last.ret.category_totals = {"Food", "Housing"}
  /\ last.ret.category_totals["Food"] = 65
  /\ last.ret.subcategory_totals["Food"]["Food (Groceries)"] = 45
  /\ last.ret.subcategory_totals["Food"]["Food (Take Out)"] = 20
  /\ last.ret.category_totals["Housing"] = 700
  /\ last.ret.summary.total_expenses = 765

(***************************************************************************)
(* Balances of one account of each liquidity tier, type and owner.         *)
(***************************************************************************)
TierAccounts == {"Checking", "HSA", "Vanessa's Roth Accounts"}

NextNetWorth ==
  \/ \E name \in TierAccounts, b \in Balances : UpdateInvestmentAccount(name, b)
  \/ \E v \in AssetValues : UpdateRealAsset("Tiguan", v)
  \/ GetNetWorthSummary

SpecNetWorth == Init /\ [][NextNetWorth]_vars

\* The sum of current_balance over the accounts with `value` in `column`.
BalanceWhere(column, value) ==
  SumOver(investment_accounts,
          { i \in DOMAIN investment_accounts : investment_accounts[i][column] = value },
          "current_balance")

\* C17: in get_net_worth_summary, liquid_assets, semi_liquid_assets and
\* non_liquid_assets are the sums of current_balance over the accounts of
\* the tier, real_assets the sum of current_value over all real assets,
\* total_assets the sum of the four; the by_account_type totals add up to
\* the three tiers combined and by_person[p] is the sum of current_balance
\* over the accounts p owns.
C17_NetWorthSums ==
  last.op = "get_net_worth_summary" =>
    LET s == last.ret
        types == { investment_accounts[i].account_type : i \in DOMAIN investment_accounts }
        persons == { investment_accounts[i].person : i \in DOMAIN investment_accounts }
    IN /\ s.liquid_assets = BalanceWhere("liquidity", "Liquid")
       /\ s.semi_liquid_assets = BalanceWhere("liquidity", "Semi-Liquid")
       /\ s.non_liquid_assets = BalanceWhere("liquidity", "Non-Liquid")
       /\ s.real_assets = SumOver(real_assets, DOMAIN real_assets, "current_value")
       /\ s.total_assets = s.liquid_assets + s.semi_liquid_assets
                             + s.non_liquid_assets + s.real_assets
       /\ DOMAIN s.by_account_type = types
       /\ SumOver([t \in types |-> [v |-> s.by_account_type[t]]], types, "v")
            = s.liquid_assets + s.semi_liquid_assets + s.non_liquid_assets
       /\ DOMAIN s.by_person = persons
       /\ \A p \in persons : s.by_person[p] = BalanceWhere("person", p)

\* The summary was read with a different balance in each tier, each held by
\* a different owner, and a real asset revalued.
C17_Witness ==
  /\ last.op = "get_net_worth_summary"
  /\ last.ret.liquid_assets = 100
  /\ last.ret.semi_liquid_assets = 250
  /\ last.ret.non_liquid_assets = 100
  /\ last.ret.real_assets = 548584 + 52000 + 30000
  /\ last.ret.total_assets = 450 + 548584 + 52000 + 30000
  /\ last.ret.by_person["Vanessa"] = 100
  /\ last.ret.by_person["Jeff"] = 250
  /\ last.ret.by_person["Joint"] = 100

(***************************************************************************)
(* add_savings_goal, deactivate_savings_goal and get_savings_goals.        *)
(* target_date is left out of the goal rows: every modelled goal is made   *)
(* with the default target date of one and the same day, so that ORDER BY  *)
(* priority, target_date orders by priority and rows of one priority come  *)
(* in id order.                                                            *)
(***************************************************************************)
AddSavingsGoal(name, target_amount, monthly_contribution, priority, notes) ==
  LET id == NextId(sqlite_sequence, "savings_goals")
  IN /\ savings_goals' =
          With(savings_goals, id,
               [name |-> name, target_amount |-> target_amount, current_amount |-> 0,
                monthly_contribution |-> monthly_contribution, priority |-> priority,
                is_active |-> 1, notes |-> notes])
     /\ sqlite_sequence' = [sqlite_sequence EXCEPT !["savings_goals"] = id]
     /\ last' = Returned("add_savings_goal",
                         <<name, target_amount, monthly_contribution, priority, notes>>, id)
     /\ history' = Append(history, [op |-> "add_savings_goal", goal_id |-> id])
     /\ UNCHANGED <<income, expenses, budget_plans, investment_accounts, real_assets>>

\* deactivate_savings_goal as a DELETE of the row.
DeactivateSavingsGoal_Deletes(goal_id) ==
  /\ savings_goals' = Without(savings_goals, goal_id)
  /\ last' = Returned("deactivate_savings_goal", <<goal_id>>, None)
  /\ history' = Append(history, [op |-> "deactivate_savings_goal", goal_id |-> goal_id])
  /\ UNCHANGED <<income, expenses, budget_plans, investment_accounts, real_assets,
                 sqlite_sequence>>

\* UPDATE savings_goals SET is_active = 0 WHERE id = ?
DeactivateSavingsGoal(goal_id) ==
  /\ savings_goals' =
       [i \in DOMAIN savings_goals |->
          IF i = goal_id THEN [savings_goals[i] EXCEPT !.is_active = 0]
          ELSE savings_goals[i]]
  /\ last' = Returned("deactivate_savings_goal", <<goal_id>>, None)
  /\ history' = Append(history, [op |-> "deactivate_savings_goal", goal_id |-> goal_id])
  /\ UNCHANGED <<income, expenses, budget_plans, investment_accounts, real_assets,
                 sqlite_sequence>>

\* SELECT * FROM savings_goals WHERE is_active = 1 ORDER BY priority,
\* target_date: the fetched rows as dicts.
RECURSIVE OrderByPriority(_, _)
OrderByPriority(goals, ids) ==
  IF ids = {} THEN <<>>
  ELSE LET m == CHOOSE x \in ids :
                  \A y \in ids \ {x} :
                     \/ goals[x].priority < goals[y].priority
                     \/ goals[x].priority = goals[y].priority /\ x < y
       IN <<[id |-> m] @@ goals[m]>> \o OrderByPriority(goals, ids \ {m})

get_savings_goals ==
  OrderByPriority(savings_goals, { i \in DOMAIN savings_goals : savings_goals[i].is_active = 1 })

GetSavingsGoals ==
  /\ last' = Returned("get_savings_goals", <<>>, get_savings_goals)
  /\ UNCHANGED <<income, expenses, budget_plans, investment_accounts, real_assets,
                 savings_goals, sqlite_sequence, history>>

\* The number of writes to savings_goals in the explored runs.
MaxActiveCalls == 3

NextActive ==
  \/ \E g \in GoalIds :
       /\ Len(history) < MaxActiveCalls
       /\ DeactivateSavingsGoal(g)
  \/ \E g \in {1, 3} :
       /\ Len(history) < MaxActiveCalls
       /\ UpdateSavingsGoalContribution(g, 100)
  \/ /\ Len(history) < MaxActiveCalls
     /\ AddSavingsGoal("Car", 5000, 200, 2, "")
  \/ GetSavingsGoals

SpecActive == Init /\ [][NextActive]_vars

C19_ContributionMonotonic ==
  [][last'.op = "update_savings_goal_contribution" =>
       \A i \in DOMAIN savings_goals :
          savings_goals'[i].current_amount >= savings_goals[i].current_amount
    ]_vars

\* C19, amended: update_savings_goal_contribution(goal_id, amount) moves the
\* goal's current_amount by exactly `amount`, of either sign: the amount is
\* greater than or equal to its value before the call if and only if
\* amount >= 0, and a negative amount lowers it.
C19_ContributionMovesByAmount ==
  [][(last'.op = "update_savings_goal_contribution"
        /\ last'.args[1] \in DOMAIN savings_goals) =>
       LET before == savings_goals[last'.args[1]].current_amount
           after == savings_goals'[last'.args[1]].current_amount
           amount == last'.args[2]
       IN /\ after - before = amount
          /\ (after >= before) <=> (amount >= 0)
          /\ amount < 0 => after < before
    ]_vars

\* Goal 1 received 100 and then a contribution of -30: it holds 70.
C19_Witness ==
  /\ last.op = "update_savings_goal_contribution"
  /\ last.args = <<1, 0 - 30>>
  /\ Len(history) = 2
  /\ history[1].goal_id = 1
  /\ history[1].amount = 100
  /\ savings_goals[1].current_amount = 70

(***************************************************************************)
(* Adds and updates with date strings of other forms than YYYY-MM-DD.      *)
(***************************************************************************)
\* The number of rows inserted into the income and expense tables together.
MaxDateRows == 2

\* 03-15-2024, 2024/03/15 and Mar-15.
D_US == <<"0", "3", "-", "1", "5", "-", "2", "0", "2", "4">>

D_SLASH == <<"2", "0", "2", "4", "/", "0", "3", "/", "1", "5">>

D_WORD == <<"M", "a", "r", "-", "1", "5">>

AnyDates == { D_2024_03_15, D_US, D_SLASH, D_WORD }

NextDates ==
  \/ \E d \in AnyDates :
       /\ Inserted < MaxDateRows
       /\ AddIncome(d, "Salary", 100, "Jeff", "Checking", "", FALSE, "")
  \/ \E d \in AnyDates :
       /\ Inserted < MaxDateRows
       /\ AddExpense(d, "Food", "Food (Groceries)", 45, "Jeff", "", "Checking", TRUE)
  \/ \E id \in 1..MaxDateRows, d \in AnyDates : UpdateIncome(id, IncomeData(d))
  \/ \E id \in 1..MaxDateRows, d \in AnyDates : UpdateExpense(id, ExpenseData(d))

SpecDates == Init /\ [][NextDates]_vars

DatedOps == {"add_income", "add_expense", "update_income", "update_expense"}

\* The date argument of a call to one of the four methods.
DateArg(call) ==
  IF call.op \in {"add_income", "add_expense"} THEN call.args[1] ELSE call.args[2].date

\* The positions of the '-' characters of a str.
Dashes(date) == { i \in 1..Len(date) : date[i] = "-" }

\* The text before the first '-' and the text after it up to the second.
BeforeFirstDash(date) ==
  LET k == CHOOSE i \in Dashes(date) : \A j \in Dashes(date) : i <= j
  IN SubSeq(date, 1, k - 1)

AfterFirstDash(date) ==
  LET k == CHOOSE i \in Dashes(date) : \A j \in Dashes(date) : i <= j
      later == { i \in Dashes(date) : i > k }
      n == IF later = {} THEN Len(date) + 1
           ELSE CHOOSE i \in later : \A j \in later : i <= j
  IN SubSeq(date, k + 1, n - 1)

IsDecimal(s) == Len(s) > 0 /\ \A i \in 1..Len(s) : IsDigit(s[i])

\* C20 as stated: add_income, add_expense, update_income and update_expense
\* called with a date string that is not of the form YYYY-MM-DD raise an
\* error and leave the income and expense tables unchanged.
C20_MalformedDateRaises ==
  [][(last'.op \in DatedOps /\ ~IsIsoDate(DateArg(last'))) =>
       /\ last'.raised # None
       /\ income' = income
       /\ expenses' = expenses
    ]_vars

\* C20, amended: the four methods raise from the month/year derivation, and
\* leave the income and expense tables unchanged, exactly when the date
\* string holds no '-' (IndexError) or the text before its first '-' is not
\* a decimal integer (ValueError).  Any other string, of the form YYYY-MM-DD
\* or not, raises nothing: an add stores a new row whose month is the text
\* between the first and the second '-' and whose year is the integer
\* before the first '-'.
C20_RaisesOnlyWithoutYearPrefix ==
  [][last'.op \in DatedOps =>
       LET d == DateArg(last')
           underivable == Dashes(d) = {} \/ ~IsDecimal(BeforeFirstDash(d))
           table == IF last'.op \in {"add_income", "update_income"} THEN income ELSE expenses
           table2 == IF last'.op \in {"add_income", "update_income"} THEN income' ELSE expenses'
       IN /\ (last'.raised # None) <=> underivable
          /\ Dashes(d) = {} => last'.raised = "IndexError"
          /\ (Dashes(d) # {} /\ ~IsDecimal(BeforeFirstDash(d))) => last'.raised = "ValueError"
          /\ underivable => (income' = income /\ expenses' = expenses)
          /\ (~underivable /\ last'.op \in {"add_income", "add_expense"}) =>
               /\ DOMAIN table2 = DOMAIN table \cup {last'.ret}
               /\ last'.ret \notin DOMAIN table
               /\ table2[last'.ret].date = d
               /\ table2[last'.ret].month = AfterFirstDash(d)
               /\ table2[last'.ret].year = PyInt(BeforeFirstDash(d)).val
    ]_vars

\* add_expense('03-15-2024', ...) returned id 1 without an error: the
\* expense is stored with month '15' and year 3.
C20_Witness ==
  /\ last.op = "add_expense"
  /\ last.args[1] = D_US
  /\ last.raised = None
  /\ last.ret = 1
  /\ income = <<>>
  /\ expenses[1].month = <<"1", "5">>
  /\ expenses[1].year = 3

(***************************************************************************)
(* Income written with amounts of either sign.                             *)
(***************************************************************************)
\* The number of income rows inserted in the explored runs.
MaxAmountRows == 3

IncomeAmounts == {100, 0 - 50}

\* Data lines with the Amount cells '45' and '-50'.
AmountCsvRows ==
  { CsvRow(D_2024_03_15, <<"4", "5">>), CsvRow(D_2024_03_15, <<"-", "5", "0">>) }

AmountCsvFiles == UNION { [1..n -> AmountCsvRows] : n \in 1..MaxAmountRows }

NextAmounts ==
  \/ \E a \in IncomeAmounts :
       /\ sqlite_sequence["income"] < MaxAmountRows
       /\ AddIncome(D_2024_03_15, "Salary", a, "Jeff", "Checking", "", FALSE, "")
  \/ \E id \in 1..MaxAmountRows, a \in IncomeAmounts :
       UpdateIncome(id, [IncomeData(D_2025_12_01) EXCEPT !.amount = a])
  \/ \E file \in AmountCsvFiles :
       /\ sqlite_sequence["income"] + Len(file) <= MaxAmountRows
       /\ ImportCsvData(file, "income", Today)

SpecAmounts == Init /\ [][NextAmounts]_vars

\* C21 as stated: every stored income row has a non-negative amount.
C21_IncomeNonNegative ==
  \A i \in DOMAIN income : income[i].amount >= 0

\* The number an Amount cell of AmountCsvRows stands for.
CellAmount(cell) == IF cell = <<"4", "5">> THEN 45 ELSE 0 - 50

\* C21, amended: add_income, update_income and the income CSV import store
\* the amount they are given, of either sign and without an error: a stored
\* income amount is the amount passed to the call that last wrote the row,
\* so it is negative exactly when that amount was negative, and no call
\* changes the amount of a row it does not write.
C21_AmountStoredAsGiven ==
  [][LET new == DOMAIN income' \ DOMAIN income
         kept(i) == i \in DOMAIN income' /\ income'[i].amount = income[i].amount
     IN /\ last'.op = "add_income" =>
             /\ last'.raised = None
             /\ new = {last'.ret}
             /\ income'[last'.ret].amount = last'.args[3]
             /\ \A i \in DOMAIN income : kept(i)
        /\ last'.op = "update_income" =>
             /\ last'.raised = None
             /\ new = {}
             /\ \A i \in DOMAIN income :
                  IF i = last'.args[1]
                  THEN income'[i].amount = last'.args[2].amount
                  ELSE kept(i)
        /\ last'.op = "import_csv_data" =>
             LET file == last'.args[1]
                 ids == Ascending(new)
             IN /\ last'.ret.errors = <<>>
                /\ Len(ids) = Len(file)
                /\ \A k \in 1..Len(file) :
                     income'[ids[k]].amount = CellAmount(file[k]["Amount"])
                /\ \A i \in DOMAIN income : kept(i)
    ]_vars

\* An income of 100 was added and a file with the Amount '-50' imported:
\* the second income row holds -50.
C21_Witness ==
  /\ last.op = "import_csv_data"
  /\ Len(last.args[1]) = 1
  /\ last.args[1][1]["Amount"] = <<"-", "5", "0">>
  /\ DOMAIN income = {1, 2}
  /\ income[1].amount = 100
  /\ income[2].amount = 0 - 50

(***************************************************************************)
(* Adds and deletes, with the id every add returned kept in `history`.     *)
(***************************************************************************)
\* The number of rows inserted into the income and expense tables together.
MaxIdRows == 3

AddIncomeRecorded(date, source, amount, person, account, description, is_transfer, from_account) ==
  LET r == add_income(income, sqlite_sequence, date, source, amount, person, account, description, is_transfer, from_account)
      args == <<date, source, amount, person, account, description, is_transfer, from_account>>
  IN /\ income' = r.table
     /\ sqlite_sequence' = r.seq
     /\ last' = IF r.raised # None THEN Raised("add_income", args, r.raised)
                ELSE Returned("add_income", args, r.ret)
     /\ history' = Append(history, [op |-> "add_income", ret |-> r.ret])
     /\ UNCHANGED <<expenses, budget_plans, investment_accounts, real_assets, savings_goals>>

AddExpenseRecorded(date, category, subcategory, amount, person, description, account, cleared) ==
  LET r == add_expense(expenses, sqlite_sequence, date, category, subcategory, amount, person, description, account, cleared)
      args == <<date, category, subcategory, amount, person, description, account, cleared>>
  IN /\ expenses' = r.table
     /\ sqlite_sequence' = r.seq
     /\ last' = IF r.raised # None THEN Raised("add_expense", args, r.raised)
                ELSE Returned("add_expense", args, r.ret)
     /\ history' = Append(history, [op |-> "add_expense", ret |-> r.ret])
     /\ UNCHANGED <<income, budget_plans, investment_accounts, real_assets, savings_goals>>

NextIds ==
  \/ \E a \in {100, 250} :
       /\ Inserted < MaxIdRows
       /\ AddIncomeRecorded(D_2024_03_15, "Salary", a, "Jeff", "Checking", "", FALSE, "")
  \/ \E a \in {45} :
       /\ Inserted < MaxIdRows
       /\ AddExpenseRecorded(D_2024_03_15, "Food", "Food (Groceries)", a, "Jeff", "", "Checking", TRUE)
  \/ \E id \in 1..MaxIdRows : DeleteIncome(id)
  \/ \E id \in 1..MaxIdRows : DeleteExpense(id)

SpecIds == Init /\ [][NextIds]_vars

\* The ids the earlier calls of `op` returned.
ReturnedBefore(op) == { history[k].ret : k \in { j \in 1..Len(history) : history[j].op = op } }

\* C22: across any sequence of add_income/add_expense and
\* delete_income/delete_expense calls, each add returns the id of the row
\* it has just inserted, and that id differs from every id an earlier add on
\* the same table returned, the ids of rows deleted since included.
C22_IdsNeverReused ==
  [][last'.op \in {"add_income", "add_expense"} =>
       LET table == IF last'.op = "add_income" THEN income ELSE expenses
           table2 == IF last'.op = "add_income" THEN income' ELSE expenses'
           id == last'.ret
       IN /\ last'.raised = None
          /\ DOMAIN table2 = DOMAIN table \cup {id}
          /\ id \notin DOMAIN table
          /\ table2[id].date = last'.args[1]
          /\ table2[id].amount = (IF last'.op = "add_income" THEN last'.args[3] ELSE last'.args[4])
          /\ \A i \in DOMAIN table : table2[i] = table[i]
          /\ id \notin ReturnedBefore(last'.op)
    ]_vars

\* Incomes 1 and 2 were added and deleted, and the third add_income
\* returned 3 for the only row of the table.
C22_Witness ==
  /\ last.op = "add_income"
  /\ last.ret = 3
  /\ DOMAIN income = {3}
  /\ Len(history) = 3
  /\ { history[k].ret : k \in 1..3 } = {1, 2, 3}
  /\ \A k \in 1..3 : history[k].op = "add_income"

\* The keys of the target period (tm, ty) for the pairs planned in `src`.
CopiedKeys(tm, ty, src) ==
  { <<tm, ty, budget_plans[i].category, budget_plans[i].subcategory>> :
      i \in { j \in DOMAIN budget_plans :
                budget_plans[j].month = src[1] /\ budget_plans[j].year = src[2] } }

\* C23: copy_budget_from_previous_month(target_month, target_year) changes
\* only target-period plans whose (category, subcategory) is planned in the
\* preceding period: the preceding period's own plans, target-period plans
\* of other pairs, the plans of every other period and all non-budget tables
\* are unchanged, and with no plan in the preceding period nothing changes.
C23_CopyFrame ==
  [][(last'.op = "copy_budget_from_previous_month" /\ last'.raised = None) =>
       LET tm == last'.args[1]
           ty == last'.args[2]
           keys == CopiedKeys(tm, ty, Preceding(MonthIndex(tm), ty))
       IN /\ \A i \in DOMAIN budget_plans :
               KeyOf(budget_plans[i]) \notin keys =>
                 (i \in DOMAIN budget_plans' /\ budget_plans'[i] = budget_plans[i])
          /\ \A j \in DOMAIN budget_plans' :
               KeyOf(budget_plans'[j]) \notin keys =>
                 (j \in DOMAIN budget_plans /\ budget_plans[j] = budget_plans'[j])
          /\ income' = income
          /\ expenses' = expenses
          /\ investment_accounts' = investment_accounts
          /\ real_assets' = real_assets
          /\ savings_goals' = savings_goals
          /\ keys = {} => (budget_plans' = budget_plans /\ sqlite_sequence' = sqlite_sequence)
    ]_vars

\* A copy into ("01", 2025) brought the December mortgage plan over (id 3)
\* beside the January grocery plan (id 2), which December does not plan.
C23_Witness ==
  /\ last.op = "copy_budget_from_previous_month"
  /\ last.args = <<M01, 2025>>
  /\ DOMAIN budget_plans = {1, 2, 3}
  /\ KeyOf(budget_plans[1]) = <<M12, 2024, "Housing", "Mortgage">>
  /\ KeyOf(budget_plans[2]) = <<M01, 2025, "Food", "Food (Groceries)">>
  /\ budget_plans[2].planned_amount = 300
  /\ KeyOf(budget_plans[3]) = <<M01, 2025, "Housing", "Mortgage">>
  /\ budget_plans[3].planned_amount = 300

\* C24: update_investment_account(name, new_balance) with a name no
\* investment account has raises nothing, creates no account and leaves
\* every account's current_balance and previous_balance unchanged, so that
\* the net worth summary is the same before and after the call.
C24_UnknownAccountIsNoOp ==
  [][(last'.op = "update_investment_account" /\ ~Exists(last'.args[1])) =>
       /\ last'.raised = None
       /\ DOMAIN investment_accounts' = DOMAIN investment_accounts
       /\ \A i \in DOMAIN investment_accounts :
            /\ investment_accounts'[i].account_name = investment_accounts[i].account_name
            /\ investment_accounts'[i].current_balance = investment_accounts[i].current_balance
            /\ investment_accounts'[i].previous_balance = investment_accounts[i].previous_balance
       /\ NetWorthSummary(investment_accounts', real_assets')
            = NetWorthSummary(investment_accounts, real_assets)
    ]_vars

\* 'Brokerage', a name no account has, was updated while Checking held 250
\* over an earlier 100 and HSA a balance of its own: eleven accounts remain.
C24_Witness ==
  /\ last.op = "update_investment_account"
  /\ last.args[1] = "Brokerage"
  /\ Cardinality(DOMAIN investment_accounts) = 11
  /\ \A i \in DOMAIN investment_accounts : investment_accounts[i].account_name # "Brokerage"
  /\ \E i, j \in DOMAIN investment_accounts :
       /\ investment_accounts[i].account_name = "Checking"
       /\ investment_accounts[i].current_balance = 250
       /\ investment_accounts[i].previous_balance = 100
       /\ investment_accounts[j].account_name = "HSA"
       /\ investment_accounts[j].current_balance = 100

====
